---------------------------- MODULE Spec2Model ----------------------------
(***************************************************************************)
(* A model of the author-name resolution layer of the poem recommender:   *)
(* utils/author_matcher.py (AuthorMatcher and transliterate_to_russian).   *)
(*                                                                         *)
(* Strings are sequences of Unicode code points (Python's ord), so that    *)
(* ord(c) < 128, str.lower, str.split and NFKD are modelled by what they   *)
(* do.  The alphabet of the model is ASCII plus the Russian letters        *)
(* U+0410..U+044F, U+0401 and U+0451, and the two combining marks NFKD     *)
(* produces from them.                                                     *)
(*                                                                         *)
(* A similarity score is the exact fraction <<2*M, T>> that difflib        *)
(* rounds to a float; a threshold is a fraction <<num, den>>.  Division    *)
(* is correctly rounded and monotone, and two different fractions with     *)
(* denominators this small never round to the same float, so comparing     *)
(* the fractions is comparing the floats.                                  *)
(***************************************************************************)
EXTENDS Integers, Sequences, FiniteSets, TLC

(***************************************************************************)
(* Characters and strings                                                  *)
(***************************************************************************)

\* str.isspace for the model's alphabet (also the separators of str.split()):
\* the ASCII whitespace and the no-break space.
IsSpace(c) == c \in {9, 10, 11, 12, 13, 28, 29, 30, 31, 32, 160}

\* ord(c) < 128 or c.isspace()
IsAsciiOrSpace(c) == c < 128 \/ IsSpace(c)

\* str.lower on one character.
LowerChar(c) ==
    IF c >= 65 /\ c <= 90 THEN c + 32
    ELSE IF c >= 1040 /\ c <= 1071 THEN c + 32
    ELSE IF c >= 1024 /\ c <= 1039 THEN c + 80
    ELSE c

\* unicodedata.normalize('NFKD', c) on one character.
NFKDChar(c) ==
    IF c = 1049 THEN <<1048, 774>>
    ELSE IF c = 1081 THEN <<1080, 774>>
    ELSE IF c = 1025 THEN <<1045, 776>>
    ELSE IF c = 1105 THEN <<1077, 776>>
    ELSE IF c = 160 THEN <<32>>
    ELSE <<c>>

RECURSIVE NFKD(_)
NFKD(s) == IF s = <<>> THEN <<>> ELSE NFKDChar(Head(s)) \o NFKD(Tail(s))

Lower(s) == [i \in 1..Len(s) |-> LowerChar(s[i])]

\* text.split(): the maximal runs of non-whitespace characters, in order.
SetMax(S) == CHOOSE x \in S : \A y \in S : y <= x
SetMin(S) == CHOOSE x \in S : \A y \in S : x <= y

\* The first position from i on that holds no whitespace, and the first that
\* holds whitespace; Len(s) + 1 when there is none.
WordStart(s, i) == SetMin({k \in i..Len(s) : ~IsSpace(s[k])} \cup {Len(s) + 1})
WordEnd(s, i) == SetMin({k \in i..Len(s) : IsSpace(s[k])} \cup {Len(s) + 1})

\* The run that starts at start, then the runs after it.
RECURSIVE SplitFrom(_, _)
SplitAt(s, start) ==
    IF start > Len(s) THEN <<>>
    ELSE <<SubSeq(s, start, WordEnd(s, start) - 1)>> \o SplitFrom(s, WordEnd(s, start))

SplitFrom(s, i) == SplitAt(s, WordStart(s, i))

Split(s) == SplitFrom(s, 1)

\* ' '.join(parts)
RECURSIVE JoinSpace(_)
JoinSpace(parts) ==
    IF parts = <<>> THEN <<>>
    ELSE IF Len(parts) = 1 THEN parts[1]
    ELSE parts[1] \o <<32>> \o JoinSpace(Tail(parts))

\* ' ' in s
HasSpaceChar(s) == \E i \in 1..Len(s) : s[i] = 32

\* AuthorMatcher.normalize_text
NormalizeText(text) == JoinSpace(Split(Lower(NFKD(text))))

(***************************************************************************)
(* difflib.SequenceMatcher(None, a, b).ratio()                             *)
(***************************************************************************)

\* Length of the common run of a from i and b from j, inside [.., ahi) x [.., bhi)
\* (1-based, ahi and bhi exclusive as in difflib).
RECURSIVE RunLen(_, _, _, _, _, _)
RunLen(a, b, i, j, ahi, bhi) ==
    IF i < ahi /\ j < bhi /\ a[i] = b[j]
    THEN 1 + RunLen(a, b, i + 1, j + 1, ahi, bhi)
    ELSE 0

\* The matching blocks that start at a position pair of P and have size n.
BlocksOfSize(a, b, ahi, bhi, P, n) == {p \in P : RunLen(a, b, p[1], p[2], ahi, bhi) = n}

\* Of the blocks B (all of size n) the one starting earliest in a, and of
\* those the one starting earliest in b.
EarliestIn(B, besti, n) == <<besti, SetMin({p[2] : p \in {q \in B : q[1] = besti}}), n>>
Earliest(B, n) == EarliestIn(B, SetMin({p[1] : p \in B}), n)

LongestIn(a, b, ahi, bhi, P, n) == Earliest(BlocksOfSize(a, b, ahi, bhi, P, n), n)

LongestOf(a, b, alo, ahi, blo, bhi, P) ==
    IF P = {} THEN <<alo, blo, 0>>
    ELSE LongestIn(a, b, ahi, bhi, P,
                   SetMax({RunLen(a, b, p[1], p[2], ahi, bhi) : p \in P}))

\* find_longest_match(alo, ahi, blo, bhi) without junk: the longest matching
\* block <<i, j, k>>; of those the one starting earliest in a; of those the
\* one starting earliest in b.  <<alo, blo, 0>> when there is none.
FindLongestMatch(a, b, alo, ahi, blo, bhi) ==
    LongestOf(a, b, alo, ahi, blo, bhi,
              {p \in (alo..(ahi - 1)) \X (blo..(bhi - 1)) : a[p[1]] = b[p[2]]})

\* Sum of the sizes of get_matching_blocks(): the longest block m, then the
\* same to its left and to its right.
RECURSIVE MatchTotal(_, _, _, _, _, _)
AroundBlock(a, b, alo, ahi, blo, bhi, m) ==
    IF m[3] = 0 THEN 0
    ELSE m[3]
         + (IF alo < m[1] /\ blo < m[2]
            THEN MatchTotal(a, b, alo, m[1], blo, m[2]) ELSE 0)
         + (IF m[1] + m[3] < ahi /\ m[2] + m[3] < bhi
            THEN MatchTotal(a, b, m[1] + m[3], ahi, m[2] + m[3], bhi) ELSE 0)

MatchTotal(a, b, alo, ahi, blo, bhi) ==
    AroundBlock(a, b, alo, ahi, blo, bhi, FindLongestMatch(a, b, alo, ahi, blo, bhi))

\* Faulty variant of Ratio: 0.0 when both strings are empty.
RatioEmptyZero(a, b) ==
    IF Len(a) + Len(b) = 0 THEN <<0, 1>>
    ELSE <<2 * MatchTotal(a, b, 1, Len(a) + 1, 1, Len(b) + 1), Len(a) + Len(b)>>

\* ratio(): 2.0 * matches / length, and 1.0 when both strings are empty.
Ratio(a, b) ==
    IF Len(a) + Len(b) = 0 THEN <<1, 1>>
    ELSE <<2 * MatchTotal(a, b, 1, Len(a) + 1, 1, Len(b) + 1), Len(a) + Len(b)>>

\* Comparison of scores (fractions with positive denominators).
Gt(x, y)  == x[1] * y[2] > y[1] * x[2]
Geq(x, y) == x[1] * y[2] >= y[1] * x[2]
Same(x, y) == x[1] * y[2] = y[1] * x[2]

\* AuthorMatcher.calculate_similarity
CalculateSimilarity(str1, str2) == Ratio(NormalizeText(str1), NormalizeText(str2))

(***************************************************************************)
(* transliterate_to_russian                                                *)
(***************************************************************************)

\* TRANSLIT_MAP: Latin key -> Cyrillic value, as code points.
TRANSLIT_MAP ==
       (<<115, 104, 99, 104>> :> <<1097>>)   \* shch
    @@ (<<115, 104>> :> <<1096>>)   \* sh
    @@ (<<99, 104>> :> <<1095>>)   \* ch
    @@ (<<122, 104>> :> <<1078>>)   \* zh
    @@ (<<107, 104>> :> <<1093>>)   \* kh
    @@ (<<116, 115>> :> <<1094>>)   \* ts
    @@ (<<121, 117>> :> <<1102>>)   \* yu
    @@ (<<121, 97>> :> <<1103>>)   \* ya
    @@ (<<121, 111>> :> <<1105>>)   \* yo
    @@ (<<121, 101>> :> <<1077>>)   \* ye
    @@ (<<97>> :> <<1072>>)   \* a
    @@ (<<98>> :> <<1073>>)   \* b
    @@ (<<118>> :> <<1074>>)   \* v
    @@ (<<103>> :> <<1075>>)   \* g
    @@ (<<100>> :> <<1076>>)   \* d
    @@ (<<101>> :> <<1077>>)   \* e
    @@ (<<122>> :> <<1079>>)   \* z
    @@ (<<105>> :> <<1080>>)   \* i
    @@ (<<106>> :> <<1081>>)   \* j
    @@ (<<107>> :> <<1082>>)   \* k
    @@ (<<108>> :> <<1083>>)   \* l
    @@ (<<109>> :> <<1084>>)   \* m
    @@ (<<110>> :> <<1085>>)   \* n
    @@ (<<111>> :> <<1086>>)   \* o
    @@ (<<112>> :> <<1087>>)   \* p
    @@ (<<114>> :> <<1088>>)   \* r
    @@ (<<115>> :> <<1089>>)   \* s
    @@ (<<116>> :> <<1090>>)   \* t
    @@ (<<117>> :> <<1091>>)   \* u
    @@ (<<102>> :> <<1092>>)   \* f
    @@ (<<121>> :> <<1099>>)   \* y
    @@ (<<119>> :> <<1074>>)   \* w


\* text[i:i+length] (1-based i), cut at the end of the text like a slice.
Slice(text, i, length) ==
    SubSeq(text, i, IF i + length - 1 <= Len(text) THEN i + length - 1 ELSE Len(text))

\* Faulty variant of PatternLengths: the shortest key first.
PatternLengthsAscending == <<1, 2, 3, 4>>

\* The pattern lengths in the order the loop tries them.
PatternLengths == <<4, 3, 2, 1>>

\* The first length in PatternLengths (from position n of it) whose substring
\* at i is a key of TRANSLIT_MAP; 0 when none is.
RECURSIVE FirstKeyLength(_, _, _)
FirstKeyLength(text, i, n) ==
    IF n > Len(PatternLengths) THEN 0
    ELSE IF (i - 1) + PatternLengths[n] <= Len(text)
            /\ Slice(text, i, PatternLengths[n]) \in DOMAIN TRANSLIT_MAP
         THEN PatternLengths[n]
         ELSE FirstKeyLength(text, i, n + 1)

\* One round of the while loop at position i, the matched key having this
\* length (0: no key matched).
RECURSIVE TranslitFrom(_, _)
TranslitStep(text, i, length) ==
    IF length > 0
    THEN TRANSLIT_MAP[Slice(text, i, length)] \o TranslitFrom(text, i + length)
    ELSE <<text[i]>> \o TranslitFrom(text, i + 1)

TranslitFrom(text, i) ==
    IF i > Len(text) THEN <<>>
    ELSE TranslitStep(text, i, FirstKeyLength(text, i, 1))

transliterate_to_russian(text) == TranslitFrom(Lower(text), 1)

(***************************************************************************)
(* The translation table                                                   *)
(***************************************************************************)

\* common_translations: Russian name part -> English, as code points.
common_translations ==
       (<<1055, 1091, 1096, 1082, 1080, 1085>> :> <<80, 117, 115, 104, 107, 105, 110>>)   \* Pushkin
    @@ (<<1040, 1083, 1077, 1082, 1089, 1072, 1085, 1076, 1088>> :> <<65, 108, 101, 120, 97, 110, 100, 101, 114>>)   \* Alexander
    @@ (<<1051, 1077, 1088, 1084, 1086, 1085, 1090, 1086, 1074>> :> <<76, 101, 114, 109, 111, 110, 116, 111, 118>>)   \* Lermontov
    @@ (<<1052, 1080, 1093, 1072, 1080, 1083>> :> <<77, 105, 107, 104, 97, 105, 108>>)   \* Mikhail
    @@ (<<1040, 1093, 1084, 1072, 1090, 1086, 1074, 1072>> :> <<65, 107, 104, 109, 97, 116, 111, 118, 97>>)   \* Akhmatova
    @@ (<<1040, 1085, 1085, 1072>> :> <<65, 110, 110, 97>>)   \* Anna
    @@ (<<1041, 1083, 1086, 1082>> :> <<66, 108, 111, 107>>)   \* Blok
    @@ (<<1045, 1089, 1077, 1085, 1080, 1085>> :> <<89, 101, 115, 101, 110, 105, 110>>)   \* Yesenin
    @@ (<<1057, 1077, 1088, 1075, 1077, 1081>> :> <<83, 101, 114, 103, 101, 121>>)   \* Sergey
    @@ (<<1062, 1074, 1077, 1090, 1072, 1077, 1074, 1072>> :> <<84, 115, 118, 101, 116, 97, 101, 118, 97>>)   \* Tsvetaeva
    @@ (<<1052, 1072, 1088, 1080, 1085, 1072>> :> <<77, 97, 114, 105, 110, 97>>)   \* Marina
    @@ (<<1052, 1072, 1103, 1082, 1086, 1074, 1089, 1082, 1080, 1081>> :> <<77, 97, 121, 97, 107, 111, 118, 115, 107, 121>>)   \* Mayakovsky
    @@ (<<1042, 1083, 1072, 1076, 1080, 1084, 1080, 1088>> :> <<86, 108, 97, 100, 105, 109, 105, 114>>)   \* Vladimir
    @@ (<<1055, 1072, 1089, 1090, 1077, 1088, 1085, 1072, 1082>> :> <<80, 97, 115, 116, 101, 114, 110, 97, 107>>)   \* Pasternak
    @@ (<<1041, 1086, 1088, 1080, 1089>> :> <<66, 111, 114, 105, 115>>)   \* Boris
    @@ (<<1058, 1102, 1090, 1095, 1077, 1074>> :> <<84, 121, 117, 116, 99, 104, 101, 118>>)   \* Tyutchev
    @@ (<<1060, 1105, 1076, 1086, 1088>> :> <<70, 121, 111, 100, 111, 114>>)   \* Fyodor
    @@ (<<1060, 1077, 1090>> :> <<70, 101, 116>>)   \* Fet
    @@ (<<1040, 1092, 1072, 1085, 1072, 1089, 1080, 1081>> :> <<65, 102, 97, 110, 97, 115, 121>>)   \* Afanasy
    @@ (<<1053, 1077, 1082, 1088, 1072, 1089, 1086, 1074>> :> <<78, 101, 107, 114, 97, 115, 111, 118>>)   \* Nekrasov
    @@ (<<1053, 1080, 1082, 1086, 1083, 1072, 1081>> :> <<78, 105, 107, 111, 108, 97, 105>>)   \* Nikolai
    @@ (<<1041, 1088, 1086, 1076, 1089, 1082, 1080, 1081>> :> <<66, 114, 111, 100, 115, 107, 121>>)   \* Brodsky
    @@ (<<1048, 1086, 1089, 1080, 1092>> :> <<74, 111, 115, 101, 112, 104>>)   \* Joseph
    @@ (<<1052, 1072, 1085, 1076, 1077, 1083, 1100, 1096, 1090, 1072, 1084>> :> <<77, 97, 110, 100, 101, 108, 115, 116, 97, 109>>)   \* Mandelstam
    @@ (<<1054, 1089, 1080, 1087>> :> <<79, 115, 105, 112>>)   \* Osip

\* An optional value is a sequence of length 0 (None, or a missing key) or 1.
None == <<>>
Some(x) == <<x>>

\* A table entry {"en": ..., "variants": [...]}; a persisted entry may lack
\* the "en" key (en = None) or the "variants" key (read as []).
Entry(en, variants) == [en |-> en, variants |-> variants]

\* An empty dict.
EmptyTable == [a \in {} |-> Entry(None, <<>>)]

\* Faulty variant of MapParts: a part without a dictionary entry is dropped.
RECURSIVE MapKnownParts(_, _)
MapKnownParts(parts, mapping) ==
    IF parts = <<>> THEN <<>>
    ELSE (IF parts[1] \in DOMAIN mapping THEN <<mapping[parts[1]]>> ELSE <<>>)
         \o MapKnownParts(Tail(parts), mapping)

\* AuthorMatcher._transliterate_to_english
RECURSIVE MapParts(_, _)
MapParts(parts, mapping) ==
    IF parts = <<>> THEN <<>>
    ELSE <<IF parts[1] \in DOMAIN mapping THEN mapping[parts[1]] ELSE parts[1]>>
         \o MapParts(Tail(parts), mapping)

TransliterateToEnglish(russian_name, mapping) ==
    JoinSpace(MapParts(Split(russian_name), mapping))

\* {"en": english_name, "variants": [english_name]}
EntryOf(english_name) == Entry(Some(english_name), <<english_name>>)

\* The entry _build_translation_map stores for one author.
SynthesizedEntry(author) == EntryOf(TransliterateToEnglish(author, common_translations))

\* self.translation_db[author] = entry
Put(db, author, entry) ==
    [a \in DOMAIN db \cup {author} |-> IF a = author THEN entry ELSE db[a]]

\* Faulty variant of BuildTranslationMap: an author none of whose parts is in the
\* dictionary gets no entry.
RECURSIVE BuildTranslatedOnly(_, _)
BuildTranslatedOnly(author_list, db) ==
    IF author_list = <<>> THEN db
    ELSE BuildTranslatedOnly(
             Tail(author_list),
             IF Head(author_list) \notin DOMAIN db
                /\ TransliterateToEnglish(Head(author_list), common_translations)
                       # Head(author_list)
             THEN Put(db, Head(author_list), SynthesizedEntry(Head(author_list)))
             ELSE db)

\* AuthorMatcher._build_translation_map: the loop over self.authors, from db.
RECURSIVE BuildTranslationMap(_, _)
BuildTranslationMap(author_list, db) ==
    IF author_list = <<>> THEN db
    ELSE BuildTranslationMap(
             Tail(author_list),
             IF Head(author_list) \notin DOMAIN db
             THEN Put(db, Head(author_list), SynthesizedEntry(Head(author_list)))
             ELSE db)

\* The keys of the table _build_translation_map leaves, in insertion order:
\* an author that is not yet a key is inserted after the keys there are.
RECURSIVE BuildKeys(_, _)
BuildKeys(author_list, keys) ==
    IF author_list = <<>> THEN keys
    ELSE BuildKeys(
             Tail(author_list),
             IF \A i \in 1..Len(keys) : keys[i] # Head(author_list)
             THEN Append(keys, Head(author_list))
             ELSE keys)

(***************************************************************************)
(* AuthorMatcher.match_author                                              *)
(***************************************************************************)

\* The running best of match_author: best_score and best_match.
Best(score, match) == [score |-> score, match |-> match]

\* Faulty variant of InitialBestScore: the running best starts at 0.0.
InitialBestScoreZero(threshold) == <<0, 1>>

\* best_score = threshold
InitialBestScore(threshold) == threshold

\* Faulty variant of Improves: score >= best_score.
ImprovesOrEqual(score, best_score) == Geq(score, best_score)

\* score > best_score
Improves(score, best_score) == Gt(score, best_score)

\* Faulty variant of AboveSurnameFloor: no floor for the surname-only comparison.
NoSurnameFloor(surname_score) == TRUE

\* surname_score > 0.8
AboveSurnameFloor(surname_score) == Gt(surname_score, <<8, 10>>)

\* Faulty variant of Selected: the normalized name is kept as the match.
SelectedNormalized(author) == Some(NormalizeText(author))

\* best_match = author
Selected(author) == Some(author)

\* is_english = all(ord(c) < 128 or c.isspace() for c in query)
IsEnglish(query) == \A i \in 1..Len(query) : IsAsciiOrSpace(query[i])

\* Faulty variant of TransliteratedQuery: the query is transliterated whatever
\* its script.
TransliteratedQueryOfAny(query) ==
    Some(transliterate_to_russian(NormalizeText(query)))

\* Faulty variant of TransliteratedQuery: the query is never transliterated.
NoTransliteratedQuery(query) == None

\* transliterated_query: None, or transliterate_to_russian(query_norm)
TransliteratedQuery(query) ==
    IF IsEnglish(query)
    THEN Some(transliterate_to_russian(NormalizeText(query)))
    ELSE None

\* `if transliterated_query:` (neither None nor the empty string)
Truthy(opt) == opt # None /\ opt[1] # <<>>

\* One comparison of the loop body: calculate_similarity(left, right), which
\* replaces the running best when the score is above it (and, for the
\* surname-only comparison, above the floor as well).
Check(left, right, floor) == [left |-> left, right |-> right, floor |-> floor]

\* for ru_part in [author_parts[0], author_parts[-1]]: ...
PartChecks(tq, author_parts) ==
    IF Truthy(tq) /\ author_parts # <<>>
    THEN <<Check(tq[1], NormalizeText(author_parts[1]), FALSE),
           Check(tq[1], NormalizeText(author_parts[Len(author_parts)]), FALSE)>>
    ELSE <<>>

TransliteratedChecks(tq, author) == PartChecks(tq, Split(author))

\* Check Russian name (full), then Russian surname (first word)
FirstPartCheck(query, parts) ==
    IF parts # <<>> THEN <<Check(query, parts[1], FALSE)>> ELSE <<>>

RussianChecks(query, author) ==
    <<Check(query, author, FALSE)>> \o FirstPartCheck(query, Split(author))

\* Check main English name, then English surname (first word)
EnglishNameChecks(query, en) ==
    IF en # None
    THEN <<Check(query, en[1], FALSE)>> \o FirstPartCheck(query, Split(en[1]))
    ELSE <<>>

\* for variant in trans_data.get("variants", []): ...
VariantChecks(query, variants) ==
    [i \in 1..Len(variants) |-> Check(query, variants[i], FALSE)]

\* Check English translations
EnglishChecks(query, author, db) ==
    IF author \in DOMAIN db
    THEN EnglishNameChecks(query, db[author].en)
         \o VariantChecks(query, db[author].variants)
    ELSE <<>>

\* author.split()[-1] if ' ' in author else author, which raises IndexError
\* when the author has a space and no part: None stands for the exception.
LastPart(parts) == IF parts = <<>> THEN None ELSE Some(parts[Len(parts)])

AuthorSurname(author) ==
    IF HasSpaceChar(author) THEN LastPart(Split(author)) ELSE Some(author)

\* Check surname only (last word)
SurnameCheck(query, author_surname) == <<Check(query, author_surname[1], TRUE)>>

\* The comparisons of one iteration of `for author in self.authors`, in the
\* order the loop body makes them.
AuthorChecks(query, tq, author, db) ==
    TransliteratedChecks(tq, author)
    \o RussianChecks(query, author)
    \o EnglishChecks(query, author, db)
    \o SurnameCheck(query, AuthorSurname(author))

\* `if score > best_score:`
\* (`if surname_score > 0.8 and surname_score > best_score:` for the last)
Accepted(best, score, floor) ==
    (floor => AboveSurnameFloor(score)) /\ Improves(score, best.score)

\* score = self.calculate_similarity(...) of one comparison
ScoreOf(check) == CalculateSimilarity(check.left, check.right)

\* The comparisons in order, each followed by
\* `if score > best_score: best_score = score; best_match = author`.
RECURSIVE RunChecks(_, _, _)
RunChecks(best, checks, author) ==
    IF checks = <<>> THEN best
    ELSE IF Accepted(best, ScoreOf(Head(checks)), Head(checks).floor)
         THEN RunChecks(Best(ScoreOf(Head(checks)), Selected(author)),
                        Tail(checks), author)
         ELSE RunChecks(best, Tail(checks), author)

\* One iteration of `for author in self.authors`.
MatchStep(best, query, tq, author, db) ==
    RunChecks(best, AuthorChecks(query, tq, author, db), author)

\* An author whose surname expression raises IndexError.
Raises(author) == AuthorSurname(author) = None

\* Faulty variant of MatchLoop: the loop stops at the first author that matched.
RECURSIVE MatchLoopFirstHit(_, _, _, _, _)
MatchLoopFirstHit(best, query, tq, author_list, db) ==
    IF author_list = <<>> \/ best.match # None THEN best
    ELSE MatchLoopFirstHit(MatchStep(best, query, tq, Head(author_list), db),
                           query, tq, Tail(author_list), db)

\* for author in self.authors: ...
RECURSIVE MatchLoop(_, _, _, _, _)
MatchLoop(best, query, tq, author_list, db) ==
    IF author_list = <<>> THEN best
    ELSE MatchLoop(MatchStep(best, query, tq, Head(author_list), db),
                   query, tq, Tail(author_list), db)

\* The result of a call: it returns value, or it raises.
Return(value) == [kind |-> "return", value |-> value]
Raise == [kind |-> "raise", value |-> <<>>]

\* match_author(query, threshold) on a matcher with these authors and table:
\* the loop raises at the first author whose surname expression raises.
MatchAuthor(author_list, db, query, threshold) ==
    IF \E i \in 1..Len(author_list) : Raises(author_list[i])
    THEN Raise
    ELSE Return(MatchLoop(Best(InitialBestScore(threshold), None),
                          query, TransliteratedQuery(query), author_list, db).match)

(***************************************************************************)
(* AuthorMatcher.find_all_matches                                          *)
(***************************************************************************)

\* Faulty variant of MaxScore: the last score is kept.
LastScore(max_score, score) == score

\* max(max_score, score)
MaxScore(max_score, score) == IF Gt(score, max_score) THEN score ELSE max_score

\* The comparisons of one iteration of find_all_matches, in order: Russian
\* name, English name, variants, surname only.
EnglishTargets(en) == IF en # None THEN <<Check(<<>>, en[1], FALSE)>> ELSE <<>>

TableTargets(author, db) ==
    IF author \in DOMAIN db
    THEN EnglishTargets(db[author].en) \o VariantChecks(<<>>, db[author].variants)
    ELSE <<>>

AuthorTargets(author, db) ==
    <<Check(<<>>, author, FALSE)>>
    \o TableTargets(author, db)
    \o SurnameCheck(<<>>, AuthorSurname(author))

\* max_score = max(max_score, score)
\* (if score > 0.8: max_score = max(max_score, score) for the surname)
Raised(max_score, score, floor) ==
    IF floor => AboveSurnameFloor(score) THEN MaxScore(max_score, score) ELSE max_score

RECURSIVE MaxOverTargets(_, _, _)
MaxOverTargets(max_score, query, targets) ==
    IF targets = <<>> THEN max_score
    ELSE MaxOverTargets(
             Raised(max_score, CalculateSimilarity(query, Head(targets).right),
                    Head(targets).floor),
             query, Tail(targets))

\* max_score of one author, from 0.0.
AuthorMaxScore(query, author, db) ==
    MaxOverTargets(<<0, 1>>, query, AuthorTargets(author, db))

\* Faulty variant of Keeps: max_score > threshold, as in match_author.
KeepsAbove(max_score, threshold) == Gt(max_score, threshold)

\* Faulty variant of Keeps: the comparison the wrong way round.
KeepsBelow(max_score, threshold) == Geq(threshold, max_score)

\* max_score >= threshold
Keeps(max_score, threshold) == Geq(max_score, threshold)

\* if max_score >= threshold: matches.append((author, max_score))
Collect(matches, author, max_score, threshold) ==
    IF Keeps(max_score, threshold) THEN Append(matches, <<author, max_score>>)
    ELSE matches

\* for author in self.authors: ...
RECURSIVE CollectMatches(_, _, _, _, _)
CollectMatches(matches, query, threshold, author_list, db) ==
    IF author_list = <<>> THEN matches
    ELSE CollectMatches(
             Collect(matches, Head(author_list),
                     AuthorMaxScore(query, Head(author_list), db), threshold),
             query, threshold, Tail(author_list), db)

\* One insertion of the stable sort by key -score: after every element whose
\* score is at least as high.
RECURSIVE InsertByScore(_, _)
InsertByScore(sorted, m) ==
    IF sorted = <<>> THEN <<m>>
    ELSE IF Geq(sorted[1][2], m[2])
         THEN <<sorted[1]>> \o InsertByScore(Tail(sorted), m)
         ELSE <<m>> \o sorted

\* matches.sort(key=lambda x: -x[1])
RECURSIVE SortByScore(_, _)
SortByScore(sorted, matches) ==
    IF matches = <<>> THEN sorted
    ELSE SortByScore(InsertByScore(sorted, Head(matches)), Tail(matches))

\* Faulty variant of Truncate: every match is returned.
KeepAll(matches, top_k) == matches

\* matches[:top_k] for top_k >= 0
Truncate(matches, top_k) ==
    SubSeq(matches, 1, IF top_k < Len(matches) THEN top_k ELSE Len(matches))

\* find_all_matches(query, threshold, top_k): the loop raises at the first
\* author whose surname expression raises.
FindAllMatches(author_list, db, query, threshold, top_k) ==
    IF \E i \in 1..Len(author_list) : Raises(author_list[i])
    THEN Raise
    ELSE Return(Truncate(
             SortByScore(<<>>, CollectMatches(<<>>, query, threshold, author_list, db)),
             top_k))

(***************************************************************************)
(* AuthorMatcher.extract_author_from_query                                 *)
(***************************************************************************)

\* patterns, in list order:
\*   1: "like "
\*   2: "similar to "
\*   3: "by "
\*   4: "from "
\*   5: "about "
\*   6: "похож на "
\*   7: "автор "
\*   8: "стихи "
\*   9: "поэзия "
patterns ==
    << <<108, 105, 107, 101, 32>>,
       <<115, 105, 109, 105, 108, 97, 114, 32, 116, 111, 32>>,
       <<98, 121, 32>>,
       <<102, 114, 111, 109, 32>>,
       <<97, 98, 111, 117, 116, 32>>,
       <<1087, 1086, 1093, 1086, 1078, 32, 1085, 1072, 32>>,
       <<1072, 1074, 1090, 1086, 1088, 32>>,
       <<1089, 1090, 1080, 1093, 1080, 32>>,
       <<1087, 1086, 1101, 1079, 1080, 1103, 32>> >>

\* needle occurs in hay at position i (1-based).
OccursAt(hay, needle, i) ==
    i + Len(needle) - 1 <= Len(hay) /\ SubSeq(hay, i, i + Len(needle) - 1) = needle

\* `needle in hay`
Contains(hay, needle) ==
    needle = <<>> \/ \E i \in 1..Len(hay) : OccursAt(hay, needle, i)

\* hay.index(needle), 1-based, for a needle that occurs.
IndexOf(hay, needle) == SetMin({i \in 1..Len(hay) : OccursAt(hay, needle, i)})

\* str.strip()
RECURSIVE LStrip(_)
LStrip(s) == IF s # <<>> /\ IsSpace(Head(s)) THEN LStrip(Tail(s)) ELSE s

RECURSIVE RStrip(_)
RStrip(s) ==
    IF s # <<>> /\ IsSpace(s[Len(s)]) THEN RStrip(SubSeq(s, 1, Len(s) - 1)) ELSE s

Strip(s) == RStrip(LStrip(s))

\* The characters of '.,!?;:'
TrailingPunctuation == {46, 44, 33, 63, 59, 58}

\* candidate.rstrip('.,!?;:')
RECURSIVE RStripPunctuation(_)
RStripPunctuation(s) ==
    IF s # <<>> /\ s[Len(s)] \in TrailingPunctuation
    THEN RStripPunctuation(SubSeq(s, 1, Len(s) - 1))
    ELSE s

\* seq[:n]
FirstN(seq, n) == SubSeq(seq, 1, IF n < Len(seq) THEN n ELSE Len(seq))

\* remaining = query[idx:].strip() for the first occurrence of the pattern
Remaining(query, pattern) ==
    Strip(SubSeq(query, IndexOf(Lower(query), pattern) + Len(pattern), Len(query)))

\* words = remaining.split()[:3]
Words(query, pattern) == FirstN(Split(Remaining(query, pattern)), 3)

\* candidate = " ".join(words[:i]).rstrip('.,!?;:')
Candidate(words, i) == RStripPunctuation(JoinSpace(FirstN(words, i)))

\* Faulty variant of Ends: the call ends on a match that is the empty string
\* as well.
EndsOnAnyMatch(r) == r.kind = "raise" \/ r.value # None

\* `if matched: return matched` on the result r of a match_author call: the
\* call of extract_author_from_query ends when r raised or is a non-empty
\* author.
Ends(r) == r.kind = "raise" \/ Truthy(r.value)

\* for i in range(len(words), 0, -1): ... match_author(candidate, threshold=0.5)
RECURSIVE TryCandidates(_, _, _, _)
AfterCandidate(r, words, i, author_list, db) ==
    IF Ends(r) THEN r ELSE TryCandidates(words, i - 1, author_list, db)

TryCandidates(words, i, author_list, db) ==
    IF i = 0 THEN Return(None)
    ELSE AfterCandidate(MatchAuthor(author_list, db, Candidate(words, i), <<5, 10>>),
                        words, i, author_list, db)

\* if len(query.split()) <= 5: matched = self.match_author(query, threshold=0.5)
\* ...; return None
EndOf(r) == IF Ends(r) THEN r ELSE Return(None)

WholeQuery(query, author_list, db) ==
    IF Len(Split(query)) <= 5
    THEN EndOf(MatchAuthor(author_list, db, query, <<5, 10>>))
    ELSE Return(None)

\* for pattern in patterns: if pattern in query_lower: ..., from pattern n on
RECURSIVE TryPatterns(_, _, _, _)
AfterPattern(r, n, query, author_list, db) ==
    IF Ends(r) THEN r ELSE TryPatterns(n + 1, query, author_list, db)

TryPatterns(n, query, author_list, db) ==
    IF n > Len(patterns) THEN WholeQuery(query, author_list, db)
    ELSE IF Contains(Lower(query), patterns[n])
         THEN AfterPattern(
                  TryCandidates(Words(query, patterns[n]),
                                Len(Words(query, patterns[n])), author_list, db),
                  n, query, author_list, db)
         ELSE TryPatterns(n + 1, query, author_list, db)

ExtractAuthorFromQuery(author_list, db, query) == TryPatterns(1, query, author_list, db)

(***************************************************************************)
(* AuthorMatcher.get_english_name and get_russian_name                     *)
(***************************************************************************)

\* trans_data.get("en", default)
EnOr(entry, default) == IF entry.en # None THEN entry.en[1] ELSE default

GetEnglishName(db, russian_author) ==
    IF russian_author \in DOMAIN db
    THEN Return(EnOr(db[russian_author], russian_author))
    ELSE Return(russian_author)

\* english_author.lower() == trans_data.get("en", "").lower()
\* or english_author.lower() in [v.lower() for v in trans_data.get("variants", [])]
NamedBy(entry, english_author) ==
    \/ Lower(english_author) = Lower(EnOr(entry, <<>>))
    \/ \E i \in 1..Len(entry.variants) : Lower(english_author) = Lower(entry.variants[i])

\* Faulty variant of ScanTable: the rendering found is returned, not its key.
RECURSIVE ScanTableForRendering(_, _, _, _, _)
ScanTableForRendering(n, keys, db, author_list, english_author) ==
    IF n > Len(keys) THEN MatchAuthor(author_list, db, english_author, <<6, 10>>)
    ELSE IF NamedBy(db[keys[n]], english_author)
         THEN Return(Some(EnOr(db[keys[n]], keys[n])))
    ELSE ScanTableForRendering(n + 1, keys, db, author_list, english_author)

\* for russian_name, trans_data in self.translation_db.items(): ..., from key
\* n on, and then the fallback self.match_author(english_author).
RECURSIVE ScanTable(_, _, _, _, _)
ScanTable(n, keys, db, author_list, english_author) ==
    IF n > Len(keys) THEN MatchAuthor(author_list, db, english_author, <<6, 10>>)
    ELSE IF NamedBy(db[keys[n]], english_author) THEN Return(Some(keys[n]))
    ELSE ScanTable(n + 1, keys, db, author_list, english_author)

GetRussianName(keys, db, author_list, english_author) ==
    ScanTable(1, keys, db, author_list, english_author)

(***************************************************************************)
(* Inputs of the model                                                     *)
(***************************************************************************)

\* Bounds.
MaxCatalog == 2
MaxQueryLen == 2
MaxTopK == 2

\* All sequences over the set chars of length at most n.
StringsUpTo(chars, n) == UNION {[1..m -> chars] : m \in 0..n}

\* Catalog entries: a one-part and a two-part name of the dictionary, a name
\* outside it in two letter cases, and garbage (the empty string, a single
\* space).
AuthorPool ==
    { <<1060, 1077, 1090>>,    \* "Фет"
      <<1040, 1085, 1085, 1072, 32, 1060, 1077, 1090>>,    \* "Анна Фет"
      <<1060, 1077, 1103>>,    \* "Фея"
      <<1060, 1045, 1071>>,    \* "ФЕЯ"
      <<>>,              \* ""
      <<32>> }           \* " "

Catalogs == StringsUpTo(AuthorPool, MaxCatalog)

\* Queries: every string of " ", "ф", "е" up to MaxQueryLen, and some words.
QueryChars == {32, 1092, 1077}

QueryWords ==
    { <<1060, 1077, 1090>>,    \* "Фет"
      <<1060, 1045, 1058>>,    \* "ФЕТ"
      <<1060, 1077, 1103>>,    \* "Фея"
      <<102, 101, 116>>,    \* "fet"
      <<70, 101, 116, 104>>,    \* "Feth"
      <<102, 101, 121, 97>>,    \* "feya"
      <<102, 101, 121, 97, 160>>,    \* "feya" and a no-break space
      <<1040, 1085, 1085, 1072>>,  \* "Анна"
      <<1040, 1085, 1085, 1072, 32, 1060, 1077, 1090>>,    \* "Анна Фет"
      <<9, 32>> }    \* "\t "

Queries == StringsUpTo(QueryChars, MaxQueryLen) \cup QueryWords

\* Queries of extract_author_from_query: with a trigger pattern (in either
\* case, with trailing punctuation, with two patterns, with nothing after the
\* pattern), without one, and with more than five words; and the words above.
PatternQueries ==
    {
      <<98, 121, 32, 1060, 1077, 1090>>,    \* "by Фет"
      <<108, 105, 107, 101, 32, 102, 101, 116, 33>>,    \* "like fet!"
      <<66, 89, 32, 1060, 1045, 1058>>,    \* "BY ФЕТ"
      <<1089, 1090, 1080, 1093, 1080, 32, 1040, 1085, 1085, 1072, 32, 1060, 1077, 1090, 44, 32, 1060, 1077, 1103>>,    \* "стихи Анна Фет, Фея"
      <<98, 121, 32, 120, 32, 108, 105, 107, 101, 32, 1060, 1077, 1103>>,    \* "by x like Фея"
      <<98, 121>>,    \* "by"
      <<98, 121, 32, 32>>,    \* "by  "
      <<97, 32, 98, 32, 99, 32, 100, 32, 101, 32, 1060, 1077, 1090>> }    \* "a b c d e Фет"

ExtractQueries == QueryWords \cup PatternQueries

\* Arguments of get_english_name: the catalog entries and a name in no catalog.
RussianNames == AuthorPool \cup { <<1092>> }

\* Arguments of get_russian_name.
EnglishNames ==
    {
      <<70, 101, 116>>,    \* "Fet"
      <<70, 69, 84>>,    \* "FET"
      <<102, 101, 116, 104>>,    \* "feth"
      <<65, 110, 110, 97, 32, 70, 101, 116>>,    \* "Anna Fet"
      <<>>,    \* ""
      <<70, 101, 121, 97>>,    \* "Feya"
      <<1060, 1077, 1103>>,    \* "Фея"
      <<1060, 1045, 1071>>,    \* "ФЕЯ"
      <<102, 101, 121>> }    \* "fey"

\* Thresholds: the defaults of find_all_matches / extract_author_from_query
\* (0.5) and of match_author (0.6), the surname floor, and a low one.
Thresholds == {<<3, 10>>, <<5, 10>>, <<6, 10>>, <<8, 10>>}

TopKs == 0..MaxTopK

\* The persisted translation store at translation_db_path: no path given,
\* no file, a file that is not JSON, or a JSON object author -> entry.
\* keys is the order of the object's keys in the file.
NoPath == [kind |-> "nopath", data |-> EmptyTable, keys |-> <<>>]
Absent == [kind |-> "absent", data |-> EmptyTable, keys |-> <<>>]
Corrupt == [kind |-> "corrupt", data |-> EmptyTable, keys |-> <<>>]
Valid(data, keys) == [kind |-> "valid", data |-> data, keys |-> keys]

StoredTables ==
    { \* {"Фет": {"en": "Fet", "variants": ["Fet", "Feth"]}}
      Valid((<<1060, 1077, 1090>> :> Entry(Some(<<70, 101, 116>>), <<<<70, 101, 116>>, <<70, 101, 116, 104>>>>)),
            << <<1060, 1077, 1090>> >>),
      \* {"Фея": {"variants": ["Feya"]}, "Анна Фет": {"en": ""}}
      Valid((<<1060, 1077, 1103>> :> Entry(None, <<<<70, 101, 121, 97>>>>))
                @@ (<<1040, 1085, 1085, 1072, 32, 1060, 1077, 1090>> :> Entry(Some(<<>>), <<>>)),
            << <<1060, 1077, 1103>>, <<1040, 1085, 1085, 1072, 32, 1060, 1077, 1090>> >>) }

Stores == {NoPath, Absent, Corrupt} \cup StoredTables

(***************************************************************************)
(* The state machine                                                       *)
(***************************************************************************)

VARIABLES
    authors,          \* self.authors
    translation_db,   \* self.translation_db: author -> entry
    translation_keys, \* list(self.translation_db): its keys in insertion order
    store,            \* the file at translation_db_path
    pc,               \* "new", then "ready" or "raised" after __init__
    call              \* the call of match_author / find_all_matches whose
                      \* result the caller holds

vars == <<authors, translation_db, translation_keys, store, pc, call>>

\* A call with its arguments and its result r.
CallOf(op, query, threshold, top_k, r) ==
    [op |-> op, query |-> query, threshold |-> threshold, top_k |-> top_k,
     kind |-> r.kind, value |-> r.value]

NoCall ==
    [op |-> "none", query |-> <<>>, threshold |-> <<0, 1>>, top_k |-> 0,
     kind |-> "none", value |-> <<>>]

Init ==
    /\ authors \in Catalogs
    /\ store \in Stores
    /\ translation_db = EmptyTable
    /\ translation_keys = <<>>
    /\ pc = "new"
    /\ call = NoCall

\* `translation_db_path and translation_db_path.exists()`
PathExists(s) == s.kind \in {"valid", "corrupt"}

\* Faulty variant of Construct: the loaded table is completed with synthesized
\* entries and written back to the path.
ConstructMerging ==
    /\ pc = "new"
    /\ IF PathExists(store)
       THEN IF store.kind = "valid"
            THEN /\ translation_db' = BuildTranslationMap(authors, store.data)
                 /\ translation_keys' = BuildKeys(authors, store.keys)
                 /\ store' = Valid(translation_db', translation_keys')
                 /\ pc' = "ready"
            ELSE /\ translation_db' = EmptyTable
                 /\ translation_keys' = <<>>
                 /\ pc' = "raised"
                 /\ store' = store
       ELSE /\ translation_db' = BuildTranslationMap(authors, EmptyTable)
            /\ translation_keys' = BuildKeys(authors, <<>>)
            /\ pc' = "ready"
            /\ store' = store
    /\ UNCHANGED <<authors, call>>

\* AuthorMatcher.__init__: json.load of the file when it exists (which
\* raises on a file that is not JSON), else _build_translation_map.
Construct ==
    /\ pc = "new"
    /\ IF PathExists(store)
       THEN IF store.kind = "valid"
            THEN /\ translation_db' = store.data
                 /\ translation_keys' = store.keys
                 /\ pc' = "ready"
            ELSE /\ translation_db' = EmptyTable
                 /\ translation_keys' = <<>>
                 /\ pc' = "raised"
       ELSE /\ translation_db' = BuildTranslationMap(authors, EmptyTable)
            /\ translation_keys' = BuildKeys(authors, <<>>)
            /\ pc' = "ready"
    /\ UNCHANGED <<authors, store, call>>

\* matcher.match_author(query, threshold)
MatchCall(query, threshold) ==
    /\ pc = "ready"
    /\ call = NoCall
    /\ call' = CallOf("match_author", query, threshold, 0,
                       MatchAuthor(authors, translation_db, query, threshold))
    /\ UNCHANGED <<authors, translation_db, translation_keys, store, pc>>

\* matcher.find_all_matches(query, threshold, top_k)
FindAllCall(query, threshold, top_k) ==
    /\ pc = "ready"
    /\ call = NoCall
    /\ call' = CallOf("find_all_matches", query, threshold, top_k,
                       FindAllMatches(authors, translation_db, query, threshold, top_k))
    /\ UNCHANGED <<authors, translation_db, translation_keys, store, pc>>

\* matcher.extract_author_from_query(query)
ExtractCall(query) ==
    /\ pc = "ready"
    /\ call = NoCall
    /\ call' = CallOf("extract_author_from_query", query, <<5, 10>>, 0,
                       ExtractAuthorFromQuery(authors, translation_db, query))
    /\ UNCHANGED <<authors, translation_db, translation_keys, store, pc>>

\* matcher.get_english_name(russian_author)
GetEnglishCall(russian_author) ==
    /\ pc = "ready"
    /\ call = NoCall
    /\ call' = CallOf("get_english_name", russian_author, <<0, 1>>, 0,
                       GetEnglishName(translation_db, russian_author))
    /\ UNCHANGED <<authors, translation_db, translation_keys, store, pc>>

\* Faulty variant of GetRussianCall: the name asked for is remembered as a
\* variant of the author it resolved to.
GetRussianCallLearning(english_author) ==
    /\ pc = "ready"
    /\ call = NoCall
    /\ call' = CallOf("get_russian_name", english_author, <<6, 10>>, 0,
                       GetRussianName(translation_keys, translation_db, authors,
                                      english_author))
    /\ translation_db' =
           IF call'.kind = "return" /\ call'.value # None
              /\ call'.value[1] \in DOMAIN translation_db
           THEN Put(translation_db, call'.value[1],
                    Entry(translation_db[call'.value[1]].en,
                          Append(translation_db[call'.value[1]].variants, english_author)))
           ELSE translation_db
    /\ UNCHANGED <<authors, translation_keys, store, pc>>

\* matcher.get_russian_name(english_author)
GetRussianCall(english_author) ==
    /\ pc = "ready"
    /\ call = NoCall
    /\ call' = CallOf("get_russian_name", english_author, <<6, 10>>, 0,
                       GetRussianName(translation_keys, translation_db, authors,
                                      english_author))
    /\ UNCHANGED <<authors, translation_db, translation_keys, store, pc>>

\* The caller is done with the result (or the exception) of its call.
Done ==
    /\ call # NoCall
    /\ call' = NoCall
    /\ UNCHANGED <<authors, translation_db, translation_keys, store, pc>>

Next ==
    \/ Construct
    \/ Done
    \/ \E q \in Queries, t \in Thresholds : MatchCall(q, t)
    \/ \E q \in Queries, t \in Thresholds, k \in TopKs : FindAllCall(q, t, k)
    \/ \E q \in ExtractQueries : ExtractCall(q)
    \/ \E a \in RussianNames : GetEnglishCall(a)
    \/ \E e \in EnglishNames : GetRussianCall(e)

Spec == Init /\ [][Next]_vars

(***************************************************************************)
(* calculate_similarity on its own: the calls matcher.calculate_similarity *)
(* (str1, str2) on a constructed matcher, which reads neither the catalog  *)
(* nor the table.                                                          *)
(***************************************************************************)

\* Bound on the length of the strings compared.
MaxSimLen == 3

\* Strings compared: every string of "Ф", "е", "т", " " up to MaxSimLen, and
\* some in lower case, with other whitespace, and with a letter NFKD
\* decomposes.
SimChars == {1060, 1077, 1090, 32}

SimWords ==
    { <<9, 1092, 1077, 1090, 32, 32>>,    \* "\tфет  "
      <<1092, 32, 32, 1090>>,             \* "ф  т"
      <<1092>>,                           \* "ф"
      <<1081>>,                           \* "й"
      <<1048, 774>> }                     \* "Й" decomposed

SimStrings == StringsUpTo(SimChars, MaxSimLen) \cup SimWords

\* A call of calculate_similarity with its arguments: pending, or returned
\* with its value.
SimilarityOf(str1, str2, kind, value) ==
    [op |-> "calculate_similarity", str1 |-> str1, str2 |-> str2,
     kind |-> kind, value |-> value]

\* A matcher over the empty catalog, and the arguments of the call to make.
SimilarityInit ==
    /\ authors = <<>>
    /\ store = NoPath
    /\ translation_db = EmptyTable
    /\ translation_keys = <<>>
    /\ pc = "ready"
    /\ call \in {SimilarityOf(str1, str2, "pending", <<0, 1>>) :
                    str1 \in SimStrings, str2 \in SimStrings}

\* matcher.calculate_similarity(str1, str2)
SimilarityCall ==
    /\ pc = "ready"
    /\ call.op = "calculate_similarity"
    /\ call.kind = "pending"
    /\ call' = SimilarityOf(call.str1, call.str2, "return",
                            CalculateSimilarity(call.str1, call.str2))
    /\ UNCHANGED <<authors, translation_db, translation_keys, store, pc>>

SimilarityNext == SimilarityCall

SpecSimilarity == SimilarityInit /\ [][SimilarityNext]_vars

(***************************************************************************)
(* The scenario of the specification: a matcher over a catalog of three    *)
(* authors with a synthesized table.                                       *)
(***************************************************************************)

PushkinAlexander == <<1055, 1091, 1096, 1082, 1080, 1085, 32, 1040, 1083, 1077, 1082, 1089, 1072, 1085, 1076, 1088>>    \* "Пушкин Александр"
LermontovMikhail == <<1051, 1077, 1088, 1084, 1086, 1085, 1090, 1086, 1074, 32, 1052, 1080, 1093, 1072, 1080, 1083>>    \* "Лермонтов Михаил"
AkhmatovaAnna == <<1040, 1093, 1084, 1072, 1090, 1086, 1074, 1072, 32, 1040, 1085, 1085, 1072>>    \* "Ахматова Анна"

ScenarioCatalog == <<PushkinAlexander, LermontovMikhail, AkhmatovaAnna>>

Puskin == <<80, 117, 115, 107, 105, 110>>    \* "Puskin"

\* Queries: names with and without typos, in either script and order, a name
\* outside the catalog, and the empty string.
ScenarioQueries ==
    {
      <<80, 117, 115, 107, 105, 110>>,    \* "Puskin"
      <<80, 117, 115, 104, 107, 105, 110>>,    \* "Pushkin"
      <<112, 117, 115, 107, 105, 110>>,    \* "puskin"
      <<76, 101, 114, 109, 111, 110, 116, 111, 118>>,    \* "Lermontov"
      <<65, 104, 109, 97, 116, 111, 118, 97>>,    \* "Ahmatova"
      <<1040, 1085, 1085, 1072>>,    \* "Анна"
      <<77, 105, 107, 104, 97, 105, 108>>,    \* "Mikhail"
      <<66, 108, 111, 107>>,    \* "Blok"
      <<1055, 1091, 1096, 1082, 1080, 1085>>,    \* "Пушкин"
      <<65, 108, 101, 120, 97, 110, 100, 101, 114, 32, 80, 117, 115, 104, 107, 105, 110>>,    \* "Alexander Pushkin"
      <<1051, 1077, 1088, 1084, 1072, 1085, 1090, 1086, 1074>>,    \* "Лермантов"
      <<65, 107, 104, 109, 97, 116, 111, 118, 97, 32, 65, 110, 110, 97>>,    \* "Akhmatova Anna"
      <<>> }    \* ""

ScenarioInit ==
    /\ authors = ScenarioCatalog
    /\ store \in {NoPath, Absent}
    /\ translation_db = EmptyTable
    /\ translation_keys = <<>>
    /\ pc = "new"
    /\ call = NoCall

ScenarioNext ==
    \/ Construct
    \/ Done
    \/ \E q \in ScenarioQueries, t \in Thresholds : MatchCall(q, t)

SpecScenario == ScenarioInit /\ [][ScenarioNext]_vars

(***************************************************************************)
(* The strategies of match_author, stated per author as sets of scores     *)
(* (4.5 a-g of the specification), for the properties below.               *)
(***************************************************************************)

Similarity(a, b) == CalculateSimilarity(a, b)

\* The authors of the catalog, as a set.
CatalogSet == {authors[i] : i \in 1..Len(authors)}

\* (a) transliterated query against the first and the last part.
TransliteratedScores(query, author) ==
    IF IsEnglish(query)
       /\ transliterate_to_russian(NormalizeText(query)) # <<>>
       /\ Split(author) # <<>>
    THEN {Similarity(transliterate_to_russian(NormalizeText(query)), part) :
             part \in {Split(author)[1], Split(author)[Len(Split(author))]}}
    ELSE {}

\* (b) full name, (c) first part.
RussianScores(query, author) ==
    {Similarity(query, author)}
    \cup (IF Split(author) # <<>> THEN {Similarity(query, Split(author)[1])} ELSE {})

\* (d) primary rendering, (e) its first part, (f) the variants.
EnglishScores(query, author, db) ==
    IF author \in DOMAIN db
    THEN (IF db[author].en # None
          THEN {Similarity(query, db[author].en[1])}
               \cup (IF Split(db[author].en[1]) # <<>>
                     THEN {Similarity(query, Split(db[author].en[1])[1])} ELSE {})
          ELSE {})
         \cup {Similarity(query, db[author].variants[i]) :
                  i \in 1..Len(db[author].variants)}
    ELSE {}

\* The scores of the strategies (a)-(f) for one author.
PlainScores(query, author, db) ==
    TransliteratedScores(query, author)
    \cup RussianScores(query, author)
    \cup EnglishScores(query, author, db)

\* (g) surname only: the last part of an author that has one.
SurnameScore(query, author) ==
    Similarity(query, IF HasSpaceChar(author)
                      THEN Split(author)[Len(Split(author))] ELSE author)

\* The scores that may replace a running best that starts at threshold.
AcceptedScores(query, author, db, threshold) ==
    {x \in PlainScores(query, author, db) : Gt(x, threshold)}
    \cup {x \in {SurnameScore(query, author)} : Gt(x, threshold) /\ Gt(x, <<8, 10>>)}

AllAccepted(query, threshold) ==
    UNION {AcceptedScores(query, a, translation_db, threshold) : a \in CatalogSet}

\* The author has an accepted score that no accepted score of the catalog exceeds.
Attains(query, author, threshold) ==
    \E x \in AcceptedScores(query, author, translation_db, threshold) :
        \A y \in AllAccepted(query, threshold) : Geq(x, y)

\* A call of match_author has returned.
MatchReturned == call.op = "match_author" /\ call.kind = "return"
FindAllReturned == call.op = "find_all_matches" /\ call.kind = "return"

\* The reorderings of a sequence.
Reorderings(seq) ==
    {[i \in 1..Len(seq) |-> seq[f[i]]] :
        f \in {g \in [1..Len(seq) -> 1..Len(seq)] :
                  \A i, j \in 1..Len(seq) : g[i] = g[j] => i = j}}

\* A string with no character other than whitespace.
Blank(str) == \A i \in 1..Len(str) : IsSpace(str[i])

(***************************************************************************)
(* Properties of match_author                                              *)
(***************************************************************************)

C2_ResultInCatalog ==
    MatchReturned =>
        \/ call.value = None
        \/ \E i \in 1..Len(authors) : call.value = Some(authors[i])

\* C2 witness: a call returned an author that differs from the query even
\* after normalization (it was found through another form of the name).
C2_Witness ==
    /\ MatchReturned
    /\ call.value # None
    /\ call.value[1] \in CatalogSet
    /\ NormalizeText(call.value[1]) # NormalizeText(call.query)
    /\ NormalizeText(call.value[1]) # call.value[1]

\* C3: every strategy of every author is evaluated: the call returns an
\* author exactly when some score is accepted, and the returned author has an
\* accepted score equal to the highest accepted score of the whole catalog.
C3_GlobalMaximumWins ==
    MatchReturned =>
        /\ (call.value = None) <=> (AllAccepted(call.query, call.threshold) = {})
        /\ call.value # None => Attains(call.query, call.value[1], call.threshold)

\* C3 witness: the first author has an accepted score, the second author a
\* strictly higher one, and the second author is returned.
C3_Witness ==
    /\ MatchReturned
    /\ Len(authors) = 2
    /\ AcceptedScores(call.query, authors[1], translation_db, call.threshold) # {}
    /\ ~Attains(call.query, authors[1], call.threshold)
    /\ call.value = Some(authors[2])

\* C4: of the authors that attain the highest accepted score the first in
\* catalog order is returned, and when only one author attains it, every
\* reordering of the catalog returns the same author.
C4_CatalogOrderStable ==
    (MatchReturned /\ call.value # None) =>
        /\ \E i \in 1..Len(authors) :
               /\ call.value = Some(authors[i])
               /\ Attains(call.query, authors[i], call.threshold)
               /\ \A j \in 1..(i - 1) :
                      ~Attains(call.query, authors[j], call.threshold)
        /\ Cardinality({a \in CatalogSet :
                           Attains(call.query, a, call.threshold)}) = 1
           => \A other \in Reorderings(authors) :
                  MatchAuthor(other, translation_db, call.query, call.threshold)
                      = Return(call.value)

\* C4 witness: two different authors attain the highest accepted score and
\* the earlier one is returned.
C4_Witness ==
    /\ MatchReturned
    /\ Len(authors) = 2
    /\ authors[1] # authors[2]
    /\ Attains(call.query, authors[1], call.threshold)
    /\ Attains(call.query, authors[2], call.threshold)
    /\ call.value = Some(authors[1])

\* C5: when the surname-only score of some author is above the threshold but
\* not above 0.8, and every other strategy of every author scores at most the
\* threshold, match_author returns None.
C5_SurnameFloor ==
    (MatchReturned
     /\ \A a \in CatalogSet :
            /\ \A x \in PlainScores(call.query, a, translation_db) :
                   ~Gt(x, call.threshold)
            /\ ~Gt(SurnameScore(call.query, a), <<8, 10>>))
    => call.value = None

\* C5 witness: such a call, with a surname-only score above the threshold.
C5_Witness ==
    /\ MatchReturned
    /\ call.value = None
    /\ \E a \in CatalogSet : Gt(SurnameScore(call.query, a), call.threshold)
    /\ \A a \in CatalogSet :
           /\ \A x \in PlainScores(call.query, a, translation_db) :
                  ~Gt(x, call.threshold)
           /\ ~Gt(SurnameScore(call.query, a), <<8, 10>>)

\* C6: no call of match_author or find_all_matches raises, whatever the
\* catalog entries are (empty and whitespace-only strings included).
C6_NeverRaises == call.kind # "raise"

\* The strings the translation table holds for the authors of the catalog.
TableStrings ==
    UNION {(IF translation_db[a].en # None THEN {translation_db[a].en[1]} ELSE {})
           \cup {translation_db[a].variants[i] :
                    i \in 1..Len(translation_db[a].variants)} :
           a \in CatalogSet \cap DOMAIN translation_db}

\* The default thresholds of match_author and find_all_matches.
DefaultThreshold(op) == IF op = "match_author" THEN <<6, 10>> ELSE <<5, 10>>

\* A call with an empty or whitespace-only query at the default threshold.
BlankQueryCall ==
    /\ call.op \in {"match_author", "find_all_matches"}
    /\ Blank(call.query)
    /\ call.threshold = DefaultThreshold(call.op)

\* C7 as stated: for any catalog, a call with a blank query at the default
\* threshold that returns, returns None (match_author) or the empty
\* sequence (find_all_matches).
C7_BlankQueryNoMatch ==
    (BlankQueryCall /\ call.kind = "return") => call.value = <<>>

\* C7 amended: when every catalog entry and every rendering and variant the
\* table holds for a catalog author has a non-whitespace character, a call
\* with a blank query at the default threshold returns None (match_author)
\* or the empty sequence (find_all_matches).
C7_BlankQueryNoMatchNonBlankNames ==
    (BlankQueryCall /\ \A str \in CatalogSet \cup TableStrings : ~Blank(str))
    => (call.kind = "return" /\ call.value = <<>>)

\* C7 witness: both kinds of call, on a catalog of two such authors.
C7_Witness ==
    /\ BlankQueryCall
    /\ Len(authors) = 2
    /\ TableStrings # {}
    /\ \A str \in CatalogSet \cup TableStrings : ~Blank(str)
    /\ call.query # <<>>
    /\ call.kind = "return"
    /\ call.op = "find_all_matches" => call.top_k > 0

(***************************************************************************)
(* Properties of the construction                                          *)
(***************************************************************************)

\* C8 as stated: after construction by either path every author of the
\* catalog has an entry in the translation table.
C8_EveryAuthorHasEntry ==
    pc = "ready" => \A a \in CatalogSet : a \in DOMAIN translation_db

\* C8 amended: after construction by synthesis (no persisted table at the
\* path) the keys of the translation table are exactly the authors of the
\* catalog, one entry each; a loaded table is the stored mapping, whose keys
\* need not cover the catalog.
C8_SynthesizedTableCoversCatalog ==
    (pc = "ready" /\ ~PathExists(store)) => DOMAIN translation_db = CatalogSet

\* C8 witness: a synthesized table for a catalog with a named author none of
\* whose parts is in the dictionary.
C8_Witness ==
    /\ pc = "ready"
    /\ ~PathExists(store)
    /\ \E a \in CatalogSet :
           /\ ~Blank(a)
           /\ a \in DOMAIN translation_db
           /\ translation_db[a].en = Some(a)

\* C9: when the persisted store is absent or is not loadable, construction
\* succeeds with a synthesized entry for every author of the catalog.
C9_SynthesizeWhenNotLoadable ==
    (pc # "new" /\ store.kind # "valid") =>
        /\ pc = "ready"
        /\ DOMAIN translation_db = CatalogSet
        /\ \A a \in CatalogSet : translation_db[a] = SynthesizedEntry(a)

\* C10: construction with a persisted store at the path leaves the store as
\* it is, and the table of the constructed matcher is the stored mapping,
\* with no entry added for the catalog authors it lacks.
C10_LoadedVerbatim ==
    [][(pc = "new" /\ pc' # "new" /\ PathExists(store)) =>
          /\ store' = store
          /\ pc' = "ready" => translation_db' = store.data]_vars

\* C10 witness: a matcher constructed from a store that lacks a catalog author.
C10_Witness ==
    /\ pc = "ready"
    /\ store.kind = "valid"
    /\ translation_db = store.data
    /\ \E a \in CatalogSet : a \notin DOMAIN store.data

\* The table was synthesized: the matcher is constructed and there was no
\* persisted table at the path.
Synthesized == pc = "ready" /\ ~PathExists(store)

\* The dictionary's rendering of one part.
PartRendering(part) ==
    IF part \in DOMAIN common_translations THEN common_translations[part] ELSE part

\* The rendering is the author's parts mapped one by one and rejoined with
\* single spaces.
IsRenderingOf(en, author) ==
    /\ Len(Split(en)) = Len(Split(author))
    /\ \A i \in 1..Len(Split(author)) : Split(en)[i] = PartRendering(Split(author)[i])
    /\ en = JoinSpace(Split(en))

\* No part of the author is a key of the dictionary.
NoKnownPart(author) ==
    \A i \in 1..Len(Split(author)) : Split(author)[i] \notin DOMAIN common_translations

\* C11 as stated: in a synthesized table each author's primary rendering is
\* its parts mapped through the dictionary and rejoined with single spaces,
\* the variants are exactly [primary rendering], and an author with no known
\* part maps to itself.
C11_SynthesizedRendering ==
    Synthesized =>
        \A a \in CatalogSet :
            /\ translation_db[a].en # None
            /\ IsRenderingOf(translation_db[a].en[1], a)
            /\ translation_db[a].variants = <<translation_db[a].en[1]>>
            /\ NoKnownPart(a) => translation_db[a].en = Some(a)

\* C11 amended: the same, where an author with no known part maps to its
\* parts rejoined with single spaces: to itself when its parts are separated
\* by single spaces and it has no leading or trailing whitespace, and
\* otherwise to that whitespace-normalized form (" " maps to "").
C11_SynthesizedRenderingRejoined ==
    Synthesized =>
        \A a \in CatalogSet :
            /\ translation_db[a].en # None
            /\ IsRenderingOf(translation_db[a].en[1], a)
            /\ translation_db[a].variants = <<translation_db[a].en[1]>>
            /\ NoKnownPart(a) => translation_db[a].en = Some(JoinSpace(Split(a)))
            /\ (NoKnownPart(a) /\ a = JoinSpace(Split(a))) => translation_db[a].en = Some(a)

\* C11 witness: a synthesized table for a two-part author of the dictionary
\* and an author with one part the dictionary does not know.
C11_Witness ==
    /\ Synthesized
    /\ \E a \in CatalogSet :
           /\ Len(Split(a)) = 2
           /\ ~NoKnownPart(a)
           /\ translation_db[a].en # Some(a)
    /\ \E a \in CatalogSet :
           /\ Len(Split(a)) = 1
           /\ NoKnownPart(a)
           /\ translation_db[a] = Entry(Some(a), <<a>>)

(***************************************************************************)
(* Properties of the calls on a constructed matcher                        *)
(***************************************************************************)

\* What the call c returns on the catalog and the table as they are now.
ResultNow(c) ==
    CASE c.op = "match_author" ->
             MatchAuthor(authors, translation_db, c.query, c.threshold)
      [] c.op = "find_all_matches" ->
             FindAllMatches(authors, translation_db, c.query, c.threshold, c.top_k)
      [] c.op = "extract_author_from_query" ->
             ExtractAuthorFromQuery(authors, translation_db, c.query)
      [] c.op = "get_english_name" ->
             GetEnglishName(translation_db, c.query)
      [] c.op = "get_russian_name" ->
             GetRussianName(translation_keys, translation_db, authors, c.query)

\* C12: no step of a constructed matcher (a call of match_author,
\* find_all_matches, extract_author_from_query, get_english_name or
\* get_russian_name, or the use of its result) changes the catalog or the
\* translation table, and the result of every call is the one its arguments
\* give on that catalog and table, so that the same call made again returns
\* the same result.
C12_CallsReadOnly ==
    /\ [][pc = "ready" =>
             /\ authors' = authors
             /\ translation_db' = translation_db
             /\ translation_keys' = translation_keys
             /\ pc' = "ready"]_vars
    /\ [](call # NoCall =>
             LET r == ResultNow(call)
             IN <<call.kind, call.value>> = <<r.kind, r.value>>)

\* C12 witness: get_russian_name resolved an English name through the table
\* (not an exact catalog name), on a table of two entries.
C12_Witness ==
    /\ pc = "ready"
    /\ call.op = "get_russian_name"
    /\ call.kind = "return"
    /\ call.value # None
    /\ call.value # Some(call.query)
    /\ Len(translation_keys) = 2
    /\ DOMAIN translation_db = {translation_keys[1], translation_keys[2]}

(***************************************************************************)
(* Properties of calculate_similarity                                      *)
(***************************************************************************)

\* A call of calculate_similarity has returned.
SimilarityReturned == call.op = "calculate_similarity" /\ call.kind = "return"

\* C13: similarity is symmetric: calculate_similarity(a, b) is
\* calculate_similarity(b, a) for all strings a and b.
C13_Symmetric ==
    SimilarityReturned =>
        Same(call.value, CalculateSimilarity(call.str2, call.str1))

\* C14: calculate_similarity(a, b) is 1.0 whenever a and b normalize to the
\* same string (so for a = b, empty or not, and for a and b that differ only
\* in case or in whitespace runs).
C14_OneOnEqualNormalForms ==
    (SimilarityReturned /\ NormalizeText(call.str1) = NormalizeText(call.str2))
    => call.value[1] = call.value[2]

\* C14 witness: two different non-blank strings that differ in case and in
\* whitespace were compared.
C14_Witness ==
    /\ SimilarityReturned
    /\ call.str1 # call.str2
    /\ Lower(call.str1) # Lower(call.str2)
    /\ Split(call.str1) # Split(call.str2)
    /\ NormalizeText(call.str1) = NormalizeText(call.str2)
    /\ NormalizeText(call.str1) # <<>>
    /\ call.value = <<2 * Len(NormalizeText(call.str1)), 2 * Len(NormalizeText(call.str1))>>

(***************************************************************************)
(* Properties of find_all_matches                                          *)
(***************************************************************************)

\* The scores find_all_matches takes the maximum of for one author: full
\* name, primary rendering, variants, and the surname-only score when it is
\* above 0.8 (no transliterated query, no first part).
SharedScores(query, author, db) ==
    {Similarity(query, author)}
    \cup (IF author \in DOMAIN db
          THEN (IF db[author].en # None
                THEN {Similarity(query, db[author].en[1])} ELSE {})
               \cup {Similarity(query, db[author].variants[i]) :
                        i \in 1..Len(db[author].variants)}
          ELSE {})
    \cup {x \in {SurnameScore(query, author)} : Gt(x, <<8, 10>>)}

\* The highest of them (0.0 at least).
BestShared(query, author, db) ==
    LET scores == SharedScores(query, author, db)
    IN CHOOSE x \in scores \cup {<<0, 1>>} : \A y \in scores : Geq(x, y)

\* The highest score of every catalog position, as pairs <<position, score>>.
BestOfCatalog ==
    {<<i, BestShared(call.query, authors[i], translation_db)>> :
        i \in 1..Len(authors)}

\* The positions of the catalog whose author's highest score is at least the
\* threshold of the call.
Qualifying ==
    {i \in 1..Len(authors) :
        Geq(BestShared(call.query, authors[i], translation_db), call.threshold)}

\* C15: find_all_matches returns at most top_k entries, in order of
\* non-increasing score.
C15_AtMostTopKSorted ==
    FindAllReturned =>
        /\ Len(call.value) <= call.top_k
        /\ \A i, j \in 1..Len(call.value) :
               i < j => Geq(call.value[i][2], call.value[j][2])

\* C15 witness: both authors of the catalog qualify, the second with the
\* higher score, and with top_k = 1 only the second is returned.
C15_Witness ==
    /\ FindAllReturned
    /\ call.top_k = 1
    /\ Len(authors) = 2
    /\ Qualifying = {1, 2}
    /\ Gt(BestShared(call.query, authors[2], translation_db),
          BestShared(call.query, authors[1], translation_db))
    /\ Len(call.value) = 1
    /\ call.value[1][1] = authors[2]

\* C16: find_all_matches returns the catalog authors whose highest score
\* (full name, primary rendering, variants, surname only above 0.8) is at
\* least the threshold, each once per catalog position with that score, cut
\* to top_k entries none of which scores less than an entry cut off.
C16_ExactlyTheQualifying ==
    FindAllReturned =>
        LET best == BestOfCatalog
            qualifying == {p \in best : Geq(p[2], call.threshold)}
        IN /\ Len(call.value) = (IF call.top_k < Cardinality(qualifying)
                                 THEN call.top_k ELSE Cardinality(qualifying))
           /\ \E f \in [1..Len(call.value) -> qualifying] :
                  /\ \A i, j \in 1..Len(call.value) : f[i] = f[j] => i = j
                  /\ \A k \in 1..Len(call.value) :
                         /\ call.value[k][1] = authors[f[k][1]]
                         /\ Same(call.value[k][2], f[k][2])
                  /\ \A p \in qualifying \ {f[k] : k \in 1..Len(call.value)} :
                         \A k \in 1..Len(call.value) :
                             Geq(call.value[k][2], p[2])

\* C16 witness: an author whose highest score is exactly the threshold is
\* returned, and match_author returns None for the same query and threshold.
C16_Witness ==
    /\ FindAllReturned
    /\ Len(call.value) > 0
    /\ Same(call.value[1][2], call.threshold)
    /\ MatchAuthor(authors, translation_db, call.query, call.threshold) = Return(None)

\* The authors find_all_matches returns for the query and threshold of the
\* call when top_k is the catalog size.
AllMatchesOfCall ==
    FindAllMatches(authors, translation_db, call.query, call.threshold, Len(authors))

AppearsInAllMatches(author) ==
    /\ AllMatchesOfCall.kind = "return"
    /\ \E k \in 1..Len(AllMatchesOfCall.value) : AllMatchesOfCall.value[k][1] = author

\* C17 as stated: an author match_author returns also appears in
\* find_all_matches for the same query and threshold with top_k at least the
\* catalog size.
C17_MatchAppearsInAllMatches ==
    (MatchReturned /\ call.value # None) => AppearsInAllMatches(call.value[1])

\* C17 amended: an author match_author returns appears in find_all_matches
\* for the same query and threshold (top_k at least the catalog size)
\* when one of the comparisons the two share scores above the threshold for
\* it: full name, primary rendering, a variant, or surname only above 0.8.
\* (An author found only through the transliterated query or through a first
\* part need not appear.)
C17_MatchOnSharedStrategyAppears ==
    (MatchReturned /\ call.value # None
     /\ \E x \in SharedScores(call.query, call.value[1], translation_db) :
            Gt(x, call.threshold))
    => AppearsInAllMatches(call.value[1])

\* C17 witness: match_author returned the second author of the catalog on a
\* shared comparison, and find_all_matches returns both authors.
C17_Witness ==
    /\ MatchReturned
    /\ Len(authors) = 2
    /\ authors[1] # authors[2]
    /\ call.value = Some(authors[2])
    /\ \E x \in SharedScores(call.query, authors[2], translation_db) :
           Gt(x, call.threshold)
    /\ AppearsInAllMatches(authors[2])
    /\ Len(AllMatchesOfCall.value) = 2

(***************************************************************************)
(* The scenario                                                            *)
(***************************************************************************)

\* The call match_author("Puskin", threshold=0.5) on the synthesized table.
PuskinCall ==
    /\ Synthesized
    /\ authors = ScenarioCatalog
    /\ MatchReturned
    /\ call.query = Puskin
    /\ call.threshold = <<5, 10>>

\* C18: with the catalog of the scenario and a synthesized table,
\* match_author("Puskin", 0.5) returns "Пушкин Александр", and the
\* transliterated-surname strategy resolves it: the query transliterates to
\* "пускин", which scores above the threshold against the first part
\* "Пушкин" and against no part of another author, while the query itself
\* scores at most the threshold against every Russian name and part, so that
\* the call returns the same author with no translation table at all.
C18_PuskinResolves ==
    PuskinCall =>
        /\ call.value = Some(PushkinAlexander)
        /\ TransliteratedQuery(call.query) = Some(<<1087, 1091, 1089, 1082, 1080, 1085>>)
        /\ Gt(Similarity(TransliteratedQuery(call.query)[1], Split(PushkinAlexander)[1]),
              call.threshold)
        /\ \A a \in {LermontovMikhail, AkhmatovaAnna} :
               \A x \in TransliteratedScores(call.query, a) : ~Gt(x, call.threshold)
        /\ \A a \in CatalogSet :
               \A x \in RussianScores(call.query, a) \cup {SurnameScore(call.query, a)} :
                   ~Gt(x, call.threshold)
        /\ MatchAuthor(authors, EmptyTable, call.query, call.threshold)
               = Return(Some(PushkinAlexander))

\* C18 witness: the call of the scenario was made and returned the author.
C18_Witness == PuskinCall /\ call.value = Some(PushkinAlexander)

(***************************************************************************)
(* transliterate_to_russian on its own, one iteration of its while loop    *)
(* per step: the module-level function reads no matcher.                   *)
(***************************************************************************)

\* Bound on the length of the texts transliterated.
MaxTranslitLen == 4

\* s, h, c, t and upper-case S: the keys s, t, ts, sh, ch and shch, the
\* letters h and c that start no key alone, and a letter lower() changes.
TranslitChars == {115, 104, 99, 116, 83}

TranslitWords ==
    { <<121, 97>>,                        \* "ya"
      <<121, 111, 122, 104>>,             \* "yozh"
      <<102, 101, 116, 33>>,              \* "fet!"
      <<1092, 1077, 1090>>,               \* "фет"
      <<1060, 1077, 1090>>,               \* "Фет"
      <<1092, 32, 102>>,                  \* "ф f"
      <<115, 104, 99, 104, 105>> }        \* "shchi"

TranslitTexts == StringsUpTo(TranslitChars, MaxTranslitLen) \cup TranslitWords

\* A call of transliterate_to_russian: the argument it was given, the locals
\* text, i and result of the loop, and the value returned.
TranslitOf(input, text, i, result, kind, value) ==
    [op |-> "transliterate_to_russian", input |-> input, text |-> text,
     i |-> i, result |-> result, kind |-> kind, value |-> value]

\* text = text.lower(); result = []; i = 0
TranslitInit ==
    /\ authors = <<>>
    /\ store = NoPath
    /\ translation_db = EmptyTable
    /\ translation_keys = <<>>
    /\ pc = "ready"
    /\ call \in {TranslitOf(input, Lower(input), 0, <<>>, "running", <<>>) :
                    input \in TranslitTexts}

\* Faulty variant of Iterated: i += 1 after a matched key as well.
IteratedByOne(c, length) ==
    IF length > 0
    THEN [c EXCEPT !.result = @ \o TRANSLIT_MAP[Slice(c.text, c.i + 1, length)],
                   !.i = @ + 1]
    ELSE [c EXCEPT !.result = Append(@, c.text[c.i + 1]),
                   !.i = @ + 1]

\* The locals after one iteration of the while loop, the for loop having
\* matched a key of this length (0: matched stayed False).
Iterated(c, length) ==
    IF length > 0
    THEN [c EXCEPT !.result = @ \o TRANSLIT_MAP[Slice(c.text, c.i + 1, length)],
                   !.i = @ + length]
    ELSE [c EXCEPT !.result = Append(@, c.text[c.i + 1]),
                   !.i = @ + 1]

\* One iteration of `while i < len(text)`.
TranslitIteration ==
    /\ call.op = "transliterate_to_russian"
    /\ call.kind = "running"
    /\ call.i < Len(call.text)
    /\ call' = Iterated(call, FirstKeyLength(call.text, call.i + 1, 1))
    /\ UNCHANGED <<authors, translation_db, translation_keys, store, pc>>

\* return ''.join(result)
TranslitReturn ==
    /\ call.op = "transliterate_to_russian"
    /\ call.kind = "running"
    /\ ~(call.i < Len(call.text))
    /\ call' = [call EXCEPT !.kind = "return", !.value = call.result]
    /\ UNCHANGED <<authors, translation_db, translation_keys, store, pc>>

TranslitNext == TranslitIteration \/ TranslitReturn

\* A call that has started runs on: nothing else is scheduled in it.
SpecTranslit == TranslitInit /\ [][TranslitNext]_vars /\ WF_vars(TranslitNext)


(***************************************************************************)
(* C19: the scan of the transliterator                                     *)
(***************************************************************************)

\* A key of the table, n characters long, starts at position i of the text.
KeyAt(text, i, n) ==
    /\ i + n - 1 <= Len(text)
    /\ SubSeq(text, i, i + n - 1) \in DOMAIN TRANSLIT_MAP

\* The length of the longest key starting at position i; 0 when none does.
LongestKey(text, i) ==
    IF \E n \in 1..4 : KeyAt(text, i, n)
    THEN SetMax({n \in 1..4 : KeyAt(text, i, n)})
    ELSE 0

\* An iteration over this text replaces the longest key at the position by
\* its value and advances past it, or copies a character that starts no key.
ReplacesOrCopies(text, n) ==
    IF n > 0
    THEN /\ call'.i = call.i + n
         /\ call'.result =
                call.result \o TRANSLIT_MAP[SubSeq(text, call.i + 1, call.i + n)]
    ELSE /\ call'.i = call.i + 1
         /\ call'.result = Append(call.result, text[call.i + 1])

GreedyScanOf(text) ==
    call'.kind = "running" => ReplacesOrCopies(text, LongestKey(text, call.i + 1))

TranslitReturned == call.op = "transliterate_to_russian" /\ call.kind = "return"

CyrillicText(text) ==
    text # <<>> /\ \A k \in 1..Len(text) : text[k] >= 1024 /\ text[k] <= 1279

Shch == <<115, 104, 99, 104>>    \* "shch"

\* C19 as stated: the scan replaces the longest key at each position of the
\* text it was given and copies a character of it that starts no key, so that
\* "shch" gives "щ" and Cyrillic text comes back unchanged, and the call
\* returns.
C19_ScanOfGivenText ==
    /\ [][GreedyScanOf(call.input)]_vars
    /\ [](TranslitReturned =>
            /\ call.value = call.result
            /\ call.input = Shch => call.value = <<1097>>
            /\ CyrillicText(call.input) => call.value = call.input)
    /\ <>TranslitReturned

\* C19: the scan runs over the lower-cased text: at each position it replaces
\* the longest key starting there by its Cyrillic value and advances past it,
\* and copies a character of the lower-cased text that starts no key, so that
\* "shch" gives "щ" and Cyrillic text comes back lower-cased (unchanged when
\* it had no upper-case letter); every call returns.
C19_ScanOfLoweredText ==
    /\ [][GreedyScanOf(Lower(call.input))]_vars
    /\ [](TranslitReturned =>
            /\ call.value = call.result
            /\ call.i = Len(call.input)
            /\ call.input = Shch => call.value = <<1097>>
            /\ CyrillicText(call.input) => call.value = Lower(call.input))
    /\ <>TranslitReturned

\* C19 witness: "Shch" was scanned to its end and gave "щ".
C19_Witness ==
    /\ TranslitReturned
    /\ call.input = <<83, 104, 99, 104>>
    /\ call.i = 4
    /\ call.value = <<1097>>


(***************************************************************************)
(* C20: the round trip of a concatenation of table keys                    *)
(***************************************************************************)

\* The ways to cut a text into keys of the table: the sequences of keys whose
\* concatenation is the text.
RECURSIVE Fragmentations(_)
Fragmentations(text) ==
    IF text = <<>> THEN {<<>>}
    ELSE UNION {{<<SubSeq(text, 1, n)>> \o rest :
                    rest \in Fragmentations(SubSeq(text, n + 1, Len(text)))} :
                n \in {m \in 1..4 : KeyAt(text, 1, m)}}

\* The concatenation of the Cyrillic values of the fragments.
RECURSIVE Values(_)
Values(frags) ==
    IF frags = <<>> THEN <<>>
    ELSE TRANSLIT_MAP[Head(frags)] \o Values(Tail(frags))

\* Each fragment, from position i of the text on, is the longest key that
\* starts at its position.
RECURSIVE LongestAtEach(_, _, _)
LongestAtEach(frags, text, i) ==
    \/ frags = <<>>
    \/ /\ Len(Head(frags)) = LongestKey(text, i)
       /\ LongestAtEach(Tail(frags), text, i + Len(Head(frags)))

\* C20 as stated: a text that is a concatenation of table keys gives the
\* concatenation of the values of those keys, whichever keys they are.
C20_EveryFragmentation ==
    TranslitReturned =>
        \A frags \in Fragmentations(call.input) : call.value = Values(frags)

\* C20: a text that is a concatenation of table keys, each of them the longest
\* key starting at its position in the text (no fragment begins a longer key
\* with the characters after it, as t does in "ts"), gives the concatenation
\* of the values of those keys.
C20_LongestFragmentation ==
    TranslitReturned =>
        \A frags \in Fragmentations(call.input) :
            LongestAtEach(frags, call.input, 1) => call.value = Values(frags)

\* C20 witness: a text that can be cut into keys in more than one way was
\* transliterated and gave the values of its cut into longest keys, of two or
\* more fragments.
C20_Witness ==
    /\ TranslitReturned
    /\ Cardinality(Fragmentations(call.input)) > 1
    /\ \E frags \in Fragmentations(call.input) :
            /\ Len(frags) > 1
            /\ LongestAtEach(frags, call.input, 1)
            /\ call.value = Values(frags)

(***************************************************************************)
(* utils/intent.py: find_author_in_text and its stem_russian               *)
(***************************************************************************)

\* The endings stem_russian tries, in its order.
endings ==
    << <<1086, 1074, 1072>>,    \* ова
       <<1086, 1074, 1091>>,    \* ову
       <<1086, 1074, 1086, 1081>>,    \* овой
       <<1086, 1074, 1099>>,    \* овы
       <<1080, 1085, 1072>>,    \* ина
       <<1080, 1085, 1091>>,    \* ину
       <<1080, 1085, 1086, 1081>>,    \* иной
       <<1080, 1085, 1099>>,    \* ины
       <<1077, 1074, 1072>>,    \* ева
       <<1077, 1074, 1091>>,    \* еву
       <<1077, 1074, 1086, 1081>>,    \* евой
       <<1077, 1074, 1099>>,    \* евы
       <<1072>>,    \* а
       <<1091>>,    \* у
       <<1086, 1081>>,    \* ой
       <<1099>>,    \* ы
       <<1077>>,    \* е
       <<1105>> >>    \* ё

\* word.endswith(ending)
EndsWith(word, ending) ==
    /\ Len(ending) <= Len(word)
    /\ SubSeq(word, Len(word) - Len(ending) + 1, Len(word)) = ending

\* word[:-len(ending)]
WithoutEnding(word, ending) == SubSeq(word, 1, Len(word) - Len(ending))

\* Faulty variant of StemFrom: an ending is stripped only when more than four
\* characters are left.
RECURSIVE StemFromLeavingFive(_, _)
StemFromLeavingFive(word, n) ==
    IF n > Len(endings) THEN word
    ELSE IF Len(word) - Len(endings[n]) > 4 /\ EndsWith(word, endings[n])
         THEN WithoutEnding(word, endings[n])
         ELSE StemFromLeavingFive(word, n + 1)

\* for ending in [...]: if len(word) > 4 and word.endswith(ending): return ...
RECURSIVE StemFrom(_, _)
StemFrom(word, n) ==
    IF n > Len(endings) THEN word
    ELSE IF Len(word) > 4 /\ EndsWith(word, endings[n])
         THEN WithoutEnding(word, endings[n])
         ELSE StemFrom(word, n + 1)

stem_russian(word) == StemFrom(word, 1)

\* Faulty variant of Insert: the list is left in its input order.
InsertFirst(a, sorted, n) == <<a>> \o sorted

\* a put into a list sorted by decreasing length, before the first name (from
\* position n) that is not longer than it.
RECURSIVE Insert(_, _, _)
Insert(a, sorted, n) ==
    IF n > Len(sorted) THEN Append(sorted, a)
    ELSE IF Len(sorted[n]) <= Len(a)
         THEN SubSeq(sorted, 1, n - 1) \o <<a>> \o SubSeq(sorted, n, Len(sorted))
         ELSE Insert(a, sorted, n + 1)

\* sorted(known_authors, key=lambda x: -len(x)): a stable sort, so names of
\* equal length keep their order.
RECURSIVE SortedByLength(_)
SortedByLength(known_authors) ==
    IF known_authors = <<>> THEN <<>>
    ELSE Insert(Head(known_authors), SortedByLength(Tail(known_authors)), 1)

\* w.strip('.,!?;:')
RECURSIVE LStripPunctuation(_)
LStripPunctuation(s) ==
    IF s # <<>> /\ Head(s) \in TrailingPunctuation
    THEN LStripPunctuation(Tail(s))
    ELSE s

StripPunctuation(w) == RStripPunctuation(LStripPunctuation(w))

\* len(w.strip('.,!?;:')) > 3
IsSignificant(w) == Len(StripPunctuation(w)) > 3

\* Faulty variant of SignificantWords: every word of the text is kept.
AllWords(t) ==
    [j \in 1..Len(Split(t)) |-> StripPunctuation(Split(t)[j])]

\* words = [w.strip('.,!?;:') for w in t.split() if len(w.strip('.,!?;:')) > 3]
SignificantWords(t) ==
    [j \in 1..Len(SelectSeq(Split(t), IsSignificant)) |->
        StripPunctuation(SelectSeq(Split(t), IsSignificant)[j])]

\* The two stem tests of the innermost loop.
StemsMatch(word_stem, author_stem) ==
    \/ Len(word_stem) > 3 /\ Contains(author_stem, word_stem)
    \/ Len(author_stem) > 3 /\ Contains(word_stem, author_stem)

\* for author_word in a_lower.split(): ...
StemMatches(word_stem, author_words) ==
    \E k \in 1..Len(author_words) :
        StemsMatch(word_stem, stem_russian(author_words[k]))

\* The body of `for word in words`: it returns a on a direct or a stem match.
WordMatches(word, a_lower) ==
    \/ Contains(a_lower, word)
    \/ StemMatches(stem_russian(word), Split(a_lower))

\* The body of the loop over the authors returns a.
AuthorFound(t, words, a_lower) ==
    \/ Contains(t, a_lower)
    \/ \E j \in 1..Len(words) : WordMatches(words[j], a_lower)

\* for a in sorted(...): ...; return None
RECURSIVE FirstFound(_, _, _)
FirstFound(t, words, sorted) ==
    IF sorted = <<>> THEN None
    ELSE IF AuthorFound(t, words, Lower(Head(sorted)))
         THEN Some(Head(sorted))
         ELSE FirstFound(t, words, Tail(sorted))

find_author_in_text(text, known_authors) ==
    FirstFound(Lower(text), SignificantWords(Lower(text)),
               SortedByLength(known_authors))

(***************************************************************************)
(* utils/intent.py: detect_intent                                          *)
(***************************************************************************)

\* \w of the pattern, for the model's alphabet: digits, Latin and Cyrillic
\* letters and the underscore.
IsWordChar(c) ==
    \/ c >= 48 /\ c <= 57
    \/ c >= 65 /\ c <= 90
    \/ c >= 97 /\ c <= 122
    \/ c = 95
    \/ c >= 1040 /\ c <= 1103
    \/ c \in {1025, 1105}

\* author|автор
AuthorKeywords ==
    { <<97, 117, 116, 104, 111, 114>>,    \* "author"
      <<1072, 1074, 1090, 1086, 1088>> }    \* "автор"

\* author|автор|похож|similar|like
HintKeywords ==
    AuthorKeywords \cup
    { <<1087, 1086, 1093, 1086, 1078>>,    \* "похож"
      <<115, 105, 109, 105, 108, 97, 114>>,    \* "similar"
      <<108, 105, 107, 101>> }    \* "like"

\* \b(keyword)\w*\b matches at position i, letter case ignored: the keyword
\* stands there and no word character stands before it (\w*\b then matches
\* to the end of the word).
KeywordAt(t, keyword, i) ==
    /\ OccursAt(Lower(t), keyword, i)
    /\ i = 1 \/ ~IsWordChar(t[i - 1])

\* re.search(r"\b(...)\w*\b", t, flags=re.I)
HasKeyword(t, keywords) ==
    \E keyword \in keywords : \E i \in 1..Len(t) : KeywordAt(t, keyword, i)

\* t.count("\n")
CountNewlines(t) == Cardinality({i \in 1..Len(t) : t[i] = 10})

\* The length above which a text is a poem.
LongText == 250

\* Faulty variant of IsPoemText: three line breaks make a poem.
IsPoemTextThreeBreaks(t) == CountNewlines(t) >= 3 \/ Len(t) > LongText

\* t.count("\n") >= 2 or len(t) > 250
IsPoemText(t) == CountNewlines(t) >= 2 \/ Len(t) > LongText

\* `if known_authors: found = find_author_in_text(t, known_authors); if found:`
\* (known_authors None or empty: no search; an empty name found is no find)
Found(t, known_authors) ==
    known_authors # <<>> /\ Truthy(find_author_in_text(t, known_authors))

\* Faulty variant of IsShort: six words are short as well.
IsShortSix(t) == Len(Split(t)) <= 6

\* len(t.split()) <= 5
IsShort(t) == Len(Split(t)) <= 5

\* detect_intent from `if t.count("\n") >= 2 ...` on, t being text.strip()
IntentOfTrimmed(t, known_authors) ==
    IF IsPoemText(t) THEN "poem_search"
    ELSE IF /\ HasKeyword(t, HintKeywords)
            /\ Found(t, known_authors) \/ HasKeyword(t, AuthorKeywords)
         THEN "author_search"
    ELSE IF Found(t, known_authors) THEN "author_search"
    ELSE IF IsShort(t) THEN "author_search"
    ELSE "poem_search"

\* detect_intent(text, known_authors); known_authors None is the empty list.
detect_intent(text, known_authors) ==
    IF text = <<>> \/ Strip(text) = <<>> THEN "unknown"
    ELSE IntentOfTrimmed(Strip(text), known_authors)

(***************************************************************************)
(* The functions of utils/intent.py on their own: they read no state.      *)
(***************************************************************************)

\* n times the letter a.
Filled(n) == [i \in 1..n |-> 97]

\* Texts: blank, with a known name verbatim, declined, in short words, with
\* and without keywords, of five and six words, of two and three lines, and
\* of 250 and 251 characters.
IntentTexts ==
    { <<>>,    \* ""
      <<32, 32>>,    \* "  "
      <<10>>,    \* "\n"
      <<1040, 1083, 1077, 1082, 1089, 1072, 1085, 1076, 1088, 32, 1055, 1091, 1096, 1082, 1080, 1085>>,    \* "Александр Пушкин"
      <<1095, 1080, 1090, 1072, 1102, 32, 1040, 1083, 1077, 1082, 1089, 1072, 1085, 1076, 1088, 32, 1055, 1091, 1096, 1082, 1080, 1085, 33>>,    \* "читаю Александр Пушкин!"
      <<1089, 1090, 1080, 1093, 1080, 32, 1072, 1083, 1077, 1082, 1089, 1072, 1085, 1076, 1088, 1072, 32, 1087, 1091, 1096, 1082, 1080, 1085, 1072>>,    \* "стихи александра пушкина"
      <<1087, 1091, 1096, 1082, 1080, 1085, 1072>>,    \* "пушкина"
      <<1055, 1059, 1064, 1050, 1048, 1053, 1059, 44>>,    \* "ПУШКИНУ,"
      <<1092, 1077, 1090>>,    \* "фет"
      <<1091, 32, 1092, 1077, 1090, 32, 1080, 32, 1103>>,    \* "у фет и я"
      <<1060, 1077, 1090, 46>>,    \* "Фет."
      <<1073, 1083, 1086, 1082>>,    \* "блок"
      <<1086, 32, 1073, 1083, 1086, 1082, 1077>>,    \* "о блоке"
      <<1082, 1090, 1086, 32, 1072, 1074, 1090, 1086, 1088, 63>>,    \* "кто автор?"
      <<112, 111, 101, 109, 115, 32, 108, 105, 107, 101, 32, 1055, 1091, 1096, 1082, 1080, 1085, 32, 112, 108, 101, 97, 115, 101, 32, 110, 111, 119, 32, 111, 107, 32, 121, 101, 115>>,    \* "poems like Пушкин please now ok yes"
      <<116, 104, 101, 32, 97, 117, 116, 104, 111, 114, 32, 111, 102, 32, 116, 104, 105, 115, 32, 108, 111, 110, 103, 32, 112, 111, 101, 109, 32, 105, 115, 32, 117, 110, 107, 110, 111, 119, 110>>,    \* "the author of this long poem is unknown"
      <<73, 32, 114, 101, 97, 108, 108, 121, 32, 108, 111, 118, 101, 32, 114, 101, 97, 100, 105, 110, 103, 32, 1055, 1091, 1096, 1082, 1080, 1085, 32, 101, 118, 101, 114, 121, 32, 100, 97, 121>>,    \* "I really love reading Пушкин every day"
      <<111, 110, 101, 32, 116, 119, 111, 32, 116, 104, 114, 101, 101, 32, 102, 111, 117, 114, 32, 102, 105, 118, 101, 32, 115, 105, 120>>,    \* "one two three four five six"
      <<111, 110, 101, 32, 116, 119, 111, 32, 116, 104, 114, 101, 101, 32, 102, 111, 117, 114, 32, 102, 105, 118, 101>>,    \* "one two three four five"
      <<105, 32, 100, 105, 115, 108, 105, 107, 101, 32, 114, 97, 105, 110, 32, 111, 110, 32, 116, 104, 101, 115, 101, 32, 108, 111, 110, 103, 32, 100, 97, 121, 115>>,    \* "i dislike rain on these long days"
      <<108, 105, 107, 101, 119, 105, 115, 101, 32, 114, 97, 105, 110, 32, 111, 110, 32, 116, 104, 101, 115, 101, 32, 108, 111, 110, 103, 32, 100, 97, 121, 115>>,    \* "likewise rain on these long days"
      <<1087, 1086, 1093, 1086, 1078, 1080, 1077, 32, 1089, 1090, 1080, 1093, 1080, 32, 1086, 32, 1083, 1102, 1073, 1074, 1080, 32, 1080, 32, 1086, 32, 1084, 1086, 1088, 1077>>,    \* "похожие стихи о любви и о море"
      <<115, 105, 109, 105, 108, 97, 114, 32, 116, 111, 32, 1073, 1083, 1086, 1082, 1072, 44, 32, 1072, 32, 1085, 1077, 32, 1060, 1077, 1090>>,    \* "similar to блока, а не Фет"
      <<97, 10, 98>>,    \* "a\nb"
      <<97, 10, 98, 10, 99>>,    \* "a\nb\nc"
      <<10, 10, 97, 10>>,    \* "\n\na\n"
      <<1072, 1074, 1090, 1086, 1088, 10, 1040, 1093, 1084, 1072, 1090, 1086, 1074, 1072, 10, 1040, 1085, 1085, 1072>>,    \* "автор\nАхматова\nАнна"
      <<1072, 1085, 1085, 1099, 32, 1072, 1093, 1084, 1072, 1090, 1086, 1074, 1086, 1081>>,    \* "анны ахматовой"
      <<1072, 1093, 1084, 1072, 1090, 1086, 1074, 1091>>,    \* "ахматову"
      <<1072, 1085, 1085, 1077>>,    \* "анне"
      <<1087, 1086, 1087, 1086, 1074, 1072>>,    \* "попова"
      <<1080, 1074, 1072, 1085, 1072>>,    \* "ивана"
      <<1087, 1086, 1083, 1086, 1074, 1086, 1081>>,    \* "половой"
      Filled(LongText),
      Filled(LongText + 1),
      Filled(LongText) \o <<32>>,
      <<32>> \o Filled(LongText + 1) }

\* Lists of known authors.
KnownAuthorLists ==
    { <<>>,    \* []
      <<<<1055, 1091, 1096, 1082, 1080, 1085>>, <<1040, 1083, 1077, 1082, 1089, 1072, 1085, 1076, 1088, 32, 1055, 1091, 1096, 1082, 1080, 1085>>>>,    \* ['Пушкин', 'Александр Пушкин']
      <<<<1040, 1083, 1077, 1082, 1089, 1072, 1085, 1076, 1088, 32, 1055, 1091, 1096, 1082, 1080, 1085>>, <<1055, 1091, 1096, 1082, 1080, 1085>>>>,    \* ['Александр Пушкин', 'Пушкин']
      <<<<1060, 1077, 1090>>, <<1041, 1083, 1086, 1082>>, <<1040, 1085, 1085, 1072, 32, 1040, 1093, 1084, 1072, 1090, 1086, 1074, 1072>>>>,    \* ['Фет', 'Блок', 'Анна Ахматова']
      <<<<1041, 1083, 1086, 1082>>, <<1060, 1077, 1090>>>>,    \* ['Блок', 'Фет']
      <<<<>>, <<1048, 1074, 1072, 1085, 32, 1055, 1086, 1087, 1086, 1074>>>>,    \* ['', 'Иван Попов']
      <<<<1055, 1091, 1096, 1082, 1080, 1085, 32, 1040, 1083, 1077, 1082, 1089, 1072, 1085, 1076, 1088>>, <<1040, 1083, 1077, 1082, 1089, 1072, 1085, 1076, 1088, 32, 1055, 1091, 1096, 1082, 1080, 1085>>, <<1055, 1091, 1096, 1082, 1080, 1085>>>>,    \* ['Пушкин Александр', 'Александр Пушкин', 'Пушкин']
      <<<<1040, 1092, 1072, 1085, 1072, 1089, 1080, 1081, 32, 1060, 1077, 1090>>, <<1041, 1083, 1086, 1082>>>> }    \* ['Афанасий Фет', 'Блок']

\* Words given to stem_russian.
StemWords ==
    { <<1087, 1091, 1096, 1082, 1080, 1085, 1072>>,    \* "пушкина"
      <<1072, 1093, 1084, 1072, 1090, 1086, 1074, 1086, 1081>>,    \* "ахматовой"
      <<1072, 1093, 1084, 1072, 1090, 1086, 1074, 1072>>,    \* "ахматова"
      <<1087, 1086, 1087, 1086, 1074, 1072>>,    \* "попова"
      <<1080, 1074, 1072, 1085, 1072>>,    \* "ивана"
      <<1087, 1086, 1083, 1086, 1074, 1086, 1081>>,    \* "половой"
      <<1086, 1074, 1086, 1081>>,    \* "овой"
      <<1073, 1083, 1086, 1082, 1072>>,    \* "блока"
      <<1073, 1083, 1086, 1082>>,    \* "блок"
      <<1077, 1074, 1091>>,    \* "еву"
      <<1084, 1072, 1077, 1074, 1072>>,    \* "маева"
      <<1085, 1080, 1085, 1072>>,    \* "нина"
      <<1072, 1085, 1085, 1077>>,    \* "анне"
      <<1089, 1105, 1105>>,    \* "сёё"
      <<1089, 1077, 1084, 1100, 1105>>,    \* "семьё"
      <<112, 117, 115, 104, 107, 105, 110, 97>>,    \* "pushkina"
      <<1055, 1059, 1064, 1050, 1048, 1053, 1040>>,    \* "ПУШКИНА"
      <<1080, 1074, 1072, 1085, 1086, 1074, 1091>>,    \* "иванову"
      <<1080, 1074, 1072, 1085, 1086, 1074, 1099>>,    \* "ивановы"
      <<1079, 1080, 1084, 1099>>,    \* "зимы"
      <<1079, 1080, 1084, 1086, 1081>>,    \* "зимой"
      <<1086, 1089, 1080, 1085, 1099>>,    \* "осины"
      <<1087, 1086, 1087, 1086, 1074, 1072, 1072>> }    \* "поповаа"

\* A call of a function of intent.py: pending, or returned with its value.
IntentCallOf(op, text, known_authors, kind, value) ==
    [op |-> op, text |-> text, known_authors |-> known_authors,
     kind |-> kind, value |-> value]

IntentCalls ==
    {IntentCallOf(op, text, known_authors, "pending", <<>>) :
        op \in {"find_author_in_text", "detect_intent"},
        text \in IntentTexts, known_authors \in KnownAuthorLists}
    \cup {IntentCallOf("stem_russian", word, <<>>, "pending", <<>>) :
            word \in StemWords}

IntentInit ==
    /\ authors = <<>>
    /\ store = NoPath
    /\ translation_db = EmptyTable
    /\ translation_keys = <<>>
    /\ pc = "ready"
    /\ call \in IntentCalls

\* find_author_in_text(text, known_authors)
FindAuthorInTextCall ==
    /\ call.op = "find_author_in_text"
    /\ call.kind = "pending"
    /\ call' = [call EXCEPT !.kind = "return",
                            !.value = find_author_in_text(call.text, call.known_authors)]
    /\ UNCHANGED <<authors, translation_db, translation_keys, store, pc>>

\* detect_intent(text, known_authors)
DetectIntentCall ==
    /\ call.op = "detect_intent"
    /\ call.kind = "pending"
    /\ call' = [call EXCEPT !.kind = "return",
                            !.value = detect_intent(call.text, call.known_authors)]
    /\ UNCHANGED <<authors, translation_db, translation_keys, store, pc>>

\* stem_russian(word)
StemRussianCall ==
    /\ call.op = "stem_russian"
    /\ call.kind = "pending"
    /\ call' = [call EXCEPT !.kind = "return", !.value = stem_russian(call.text)]
    /\ UNCHANGED <<authors, translation_db, translation_keys, store, pc>>

IntentNext == FindAuthorInTextCall \/ DetectIntentCall \/ StemRussianCall

SpecIntent == IntentInit /\ [][IntentNext]_vars

(***************************************************************************)
(* C21: find_author_in_text prefers the longer name                        *)
(***************************************************************************)

Pushkin == <<1055, 1091, 1096, 1082, 1080, 1085>>    \* "Пушкин"
AlexanderPushkin == <<1040, 1083, 1077, 1082, 1089, 1072, 1085, 1076, 1088, 32, 1055, 1091, 1096, 1082, 1080, 1085>>    \* "Александр Пушкин"

FindReturned == call.op = "find_author_in_text" /\ call.kind = "return"

\* The author satisfies a rule of find_author_in_text on the text: its
\* lower-cased name stands in the lower-cased text, or a word of the text
\* matches it directly or by its stem.
Satisfies(a, text) ==
    AuthorFound(Lower(text), SignificantWords(Lower(text)), Lower(a))

\* The name at position i is examined before the one at position j: it is
\* longer, or as long and earlier in the list.
ExaminedBefore(list, i, j) ==
    \/ Len(list[i]) > Len(list[j])
    \/ Len(list[i]) = Len(list[j]) /\ i < j

\* The name at position i is the first one examined that satisfies a rule.
FirstSatisfying(list, text, i) ==
    /\ Satisfies(list[i], text)
    /\ \A j \in 1..Len(list) : ExaminedBefore(list, j, i) => ~Satisfies(list[j], text)

\* The text holds the name at position l verbatim, and the name at position s
\* is shorter and contained in it.
LongerVerbatim(list, text, l, s) ==
    /\ Contains(Lower(text), Lower(list[l]))
    /\ Len(list[s]) < Len(list[l])
    /\ Contains(Lower(list[l]), Lower(list[s]))

DetectReturned == call.op = "detect_intent" /\ call.kind = "return"

\* The text without the whitespace at its ends.
Trimmed(text) ==
    SubSeq(text, SetMin({k \in 1..Len(text) : ~IsSpace(text[k])} \cup {Len(text) + 1}),
                 SetMax({k \in 1..Len(text) : ~IsSpace(text[k])} \cup {0}))

\* The number of line breaks in the text.
LineBreaks(t) == Cardinality({k \in 1..Len(t) : t[k] = 10})

\* C22 as stated: a text that spans more than one line after trimming, or is
\* longer than 250 characters, is a poem_search.
C22_MoreThanOneLine ==
    (/\ DetectReturned
     /\ LineBreaks(Trimmed(call.text)) >= 1 \/ Len(Trimmed(call.text)) > 250)
        => call.value = "poem_search"

\* C22: a text that, after trimming, holds two or more line breaks (spans
\* three or more lines) or is longer than 250 characters is a poem_search,
\* whatever keywords or known authors it holds.
C22_TwoLineBreaksOrLong ==
    (/\ DetectReturned
     /\ LineBreaks(Trimmed(call.text)) >= 2 \/ Len(Trimmed(call.text)) > 250)
        => call.value = "poem_search"

\* C22 witness: a text of three lines that holds the keyword "автор" and a
\* known author was classified as poem_search.
C22_Witness ==
    /\ DetectReturned
    /\ call.value = "poem_search"
    /\ LineBreaks(Trimmed(call.text)) = 2
    /\ HasKeyword(call.text, AuthorKeywords)
    /\ find_author_in_text(call.text, call.known_authors) # None

(***************************************************************************)
(* C23: the rules of detect_intent after the poem test                     *)
(***************************************************************************)

\* The number of whitespace-separated words of the text.
WordCount(t) ==
    Cardinality({k \in 1..Len(t) : ~IsSpace(t[k]) /\ (k = 1 \/ IsSpace(t[k - 1]))})

BlankText(text) == Trimmed(text) = <<>>

\* find_author_in_text finds a known author, of a name that is not the empty
\* string, in the trimmed text.
FindsNamedAuthor ==
    /\ find_author_in_text(Trimmed(call.text), call.known_authors) # None
    /\ find_author_in_text(Trimmed(call.text), call.known_authors) # Some(<<>>)

\* The value of detect_intent is author_search exactly when the condition
\* holds, and poem_search otherwise.
AuthorSearchExactlyWhen(condition) ==
    call.value = IF condition THEN "author_search" ELSE "poem_search"

\* C23 as stated: unknown is returned exactly for blank text, and a text of
\* one line and at most 250 characters is an author_search exactly when it
\* holds a keyword and a known author is found in it, or it has at most 5
\* words, and a poem_search otherwise.
C23_KeywordWithAuthorOrShort ==
    DetectReturned =>
        /\ call.value = "unknown" <=> BlankText(call.text)
        /\ (/\ ~BlankText(call.text)
            /\ LineBreaks(Trimmed(call.text)) = 0
            /\ Len(Trimmed(call.text)) <= 250)
                => AuthorSearchExactlyWhen(
                       \/ HasKeyword(Trimmed(call.text), HintKeywords) /\ FindsNamedAuthor
                       \/ WordCount(call.text) <= 5)

\* C23: unknown is returned exactly for blank text, and a text that after
\* trimming has fewer than two line breaks and at most 250 characters is an
\* author_search exactly when a known author of non-empty name is found in it
\* (with a keyword or without), or it holds a word that begins with author or
\* автор, or it has at most 5 words, and a poem_search otherwise.
C23_AuthorOrAuthorWordOrShort ==
    DetectReturned =>
        /\ call.value = "unknown" <=> BlankText(call.text)
        /\ (/\ ~BlankText(call.text)
            /\ LineBreaks(Trimmed(call.text)) < 2
            /\ Len(Trimmed(call.text)) <= 250)
                => AuthorSearchExactlyWhen(
                       \/ FindsNamedAuthor
                       \/ HasKeyword(Trimmed(call.text), AuthorKeywords)
                       \/ WordCount(call.text) <= 5)

\* C23 witness: a text of more than five words without any keyword, in which
\* a known author was found, was classified as author_search.
C23_Witness ==
    /\ DetectReturned
    /\ call.value = "author_search"
    /\ WordCount(call.text) > 5
    /\ ~HasKeyword(call.text, HintKeywords)
    /\ FindsNamedAuthor

(***************************************************************************)
(* C24: the transliteration strategy is gated by the script of the query   *)
(***************************************************************************)

\* The result of the loop of match_author without a transliterated query.
WithoutTransliteration ==
    MatchLoop(Best(call.threshold, None), call.query, None,
              authors, translation_db).match

\* The transliteration of the normalized query scores above the threshold
\* against the first or the last part of an author of the catalog.
TransliterationAccepted ==
    /\ transliterate_to_russian(NormalizeText(call.query)) # <<>>
    /\ \E a \in CatalogSet : \E part \in {1, Len(Split(a))} :
          /\ Split(a) # <<>>
          /\ Gt(Similarity(transliterate_to_russian(NormalizeText(call.query)),
                           Split(a)[part]),
                call.threshold)

\* C24 as stated: a query of ASCII and whitespace characters is compared, in
\* its transliteration, with the first and the last part of each author, and
\* for a query that holds a non-ASCII character the result is the one of the
\* other strategies alone.
C24_GatedByNonAscii ==
    MatchReturned =>
        /\ (/\ \A k \in 1..Len(call.query) :
                   call.query[k] < 128 \/ IsSpace(call.query[k])
            /\ TransliterationAccepted) => call.value # None
        /\ (\E k \in 1..Len(call.query) : call.query[k] >= 128)
                => call.value = WithoutTransliteration

\* C24: a query of ASCII and whitespace characters is compared, in the
\* transliteration of its normalized form, with the first and the last part
\* of each author (a part it matches above the threshold gives a result), and
\* for a query that holds a character that is neither ASCII nor whitespace
\* the result is the one of the other strategies alone; non-ASCII whitespace,
\* such as a no-break space, does not close the gate.
C24_GatedByAsciiOrWhitespace ==
    MatchReturned =>
        /\ (/\ \A k \in 1..Len(call.query) :
                   call.query[k] < 128 \/ IsSpace(call.query[k])
            /\ TransliterationAccepted) => call.value # None
        /\ (\E k \in 1..Len(call.query) :
                call.query[k] >= 128 /\ ~IsSpace(call.query[k]))
                => call.value = WithoutTransliteration

\* C24 witness: a query of ASCII characters got its author from the
\* transliteration compared with the last part of a two-part name, which the
\* other strategies do not give.
C24_Witness ==
    /\ MatchReturned
    /\ IsEnglish(call.query)
    /\ call.value # None
    /\ WithoutTransliteration = None
    /\ Len(Split(call.value[1])) = 2
    /\ Same(Similarity(transliterate_to_russian(NormalizeText(call.query)),
                       Split(call.value[1])[2]),
            <<1, 1>>)

(***************************************************************************)
(* C25: the stemmer                                                        *)
(***************************************************************************)

StemReturned == call.op = "stem_russian" /\ call.kind = "return"

\* The positions in the list of the endings the word ends with.
EndingsOf(word) == {n \in 1..Len(endings) : EndsWith(word, endings[n])}

\* The word without the ending at position n of the list.
Stripped(word, n) == SubSeq(word, 1, Len(word) - Len(endings[n]))

\* C25 as stated: the stem is the word without one of its known endings, more
\* than four characters long, or the word itself when no ending leaves more
\* than four characters.
C25_StrippedExceedsFour ==
    StemReturned =>
        \/ /\ call.value = call.text
           /\ \A n \in EndingsOf(call.text) : Len(Stripped(call.text, n)) <= 4
        \/ \E n \in EndingsOf(call.text) :
              /\ call.value = Stripped(call.text, n)
              /\ Len(call.value) > 4

\* C25: the stem of a word of more than four characters that ends with a known
\* ending is the word without the first ending of the list it ends with, one
\* ending and no more, however short the rest is; any other word is returned
\* unchanged.
C25_WordExceedsFour ==
    StemReturned =>
        call.value = IF Len(call.text) > 4 /\ EndingsOf(call.text) # {}
                     THEN Stripped(call.text, SetMin(EndingsOf(call.text)))
                     ELSE call.text

\* C25 witness: a word of more than four characters lost an ending and kept
\* four characters or fewer ("попова" gives "поп").
C25_Witness ==
    /\ StemReturned
    /\ call.value # call.text
    /\ Len(call.value) <= 4
    /\ Len(call.text) > 4

(***************************************************************************)
(* C26: short words match nothing                                          *)
(***************************************************************************)

\* No known author's lower-cased name stands in the lower-cased text.
NoNameVerbatim ==
    \A i \in 1..Len(call.known_authors) :
        ~Contains(Lower(call.text), Lower(call.known_authors[i]))

\* Every word of the text has at most 3 characters between its punctuation.
OnlyShortWords ==
    \A j \in 1..Len(Split(call.text)) :
        Len(StripPunctuation(Split(call.text)[j])) <= 3

\* C26: when no known author's lower-cased name occurs in the lower-cased
\* text and every word of the text has at most 3 characters after stripping
\* the punctuation .,!?;: around it, find_author_in_text returns null.
C26_ShortWordsMatchNothing ==
    (FindReturned /\ NoNameVerbatim /\ OnlyShortWords) => call.value = None

\* C26 witness: null was returned for a text of short words, one of which
\* stands in the name of a known author.
C26_Witness ==
    /\ FindReturned
    /\ NoNameVerbatim
    /\ OnlyShortWords
    /\ call.value = None
    /\ \E j \in 1..Len(Split(call.text)), i \in 1..Len(call.known_authors) :
          /\ StripPunctuation(Split(Lower(call.text))[j]) # <<>>
          /\ Contains(Lower(call.known_authors[i]),
                      StripPunctuation(Split(Lower(call.text))[j]))

(***************************************************************************)
(* C27: the candidates of extract_author_from_query                        *)
(***************************************************************************)

ExtractReturned == call.op = "extract_author_from_query" /\ call.kind = "return"

\* The candidates tried for the pattern at position n of the list: the first
\* three words after its first occurrence, then the first two, then the first.
PatternCandidates(query, n) ==
    IF Contains(Lower(query), patterns[n])
    THEN [i \in 1..Len(Words(query, patterns[n])) |->
            Candidate(Words(query, patterns[n]),
                      Len(Words(query, patterns[n])) + 1 - i)]
    ELSE <<>>

RECURSIVE CandidatesFrom(_, _)
CandidatesFrom(query, n) ==
    IF n > Len(patterns) THEN <<>>
    ELSE PatternCandidates(query, n) \o CandidatesFrom(query, n + 1)

\* Everything the call may give to match: the candidates of the patterns in
\* their order, then the whole query when it has at most 5 words.
Tried(query) ==
    CandidatesFrom(query, 1)
    \o (IF WordCount(query) <= 5 THEN <<query>> ELSE <<>>)

\* match(candidate, 0.5) on the matcher.
MatchOf(candidate) ==
    MatchAuthor(authors, translation_db, candidate, <<5, 10>>).value

IsCatalogMemberOrNull(value) ==
    value = None \/ \E a \in CatalogSet : value = Some(a)

\* The positions of the candidates tried for which match returns an author,
\* and those for which it returns one whose name is not the empty string.
Matching(query) ==
    {k \in 1..Len(Tried(query)) : MatchOf(Tried(query)[k]) # None}
MatchingNamed(query) ==
    {k \in 1..Len(Tried(query)) : Truthy(MatchOf(Tried(query)[k]))}

\* C27 as stated: the result is the first match among the candidates tried in
\* their order, null when there is none, and a catalog member or null.
C27_FirstMatch ==
    ExtractReturned =>
        /\ IsCatalogMemberOrNull(call.value)
        /\ call.value = IF Matching(call.query) = {} THEN None
                        ELSE MatchOf(Tried(call.query)[SetMin(Matching(call.query))])

\* C27: the candidates are tried pattern by pattern in the order of the list,
\* for a pattern in the query the first three words after its first
\* occurrence, then two, then one, without trailing punctuation, and after
\* them the whole query when it has at most 5 words; the result is the first
\* match at threshold 0.5 that is not the empty string (a match that is an
\* empty catalog name is passed over), null when there is none, and always a
\* catalog member or null.
C27_FirstNonEmptyMatch ==
    ExtractReturned =>
        /\ IsCatalogMemberOrNull(call.value)
        /\ call.value = IF MatchingNamed(call.query) = {} THEN None
                        ELSE MatchOf(Tried(call.query)[SetMin(MatchingNamed(call.query))])

\* C27 witness: a query with a pattern got its author from a candidate that
\* was not the first one tried.
C27_Witness ==
    /\ ExtractReturned
    /\ call.value # None
    /\ CandidatesFrom(call.query, 1) # <<>>
    /\ SetMin(MatchingNamed(call.query)) > 1
    /\ SetMin(MatchingNamed(call.query)) <= Len(CandidatesFrom(call.query, 1))

(***************************************************************************)
(* C28: the round trip of the English and Russian lookups                  *)
(***************************************************************************)

GetRussianReturned == call.op = "get_russian_name" /\ call.kind = "return"

\* get_english_name(a) on the matcher.
EnglishNameOf(a) == GetEnglishName(translation_db, a).value

PairwiseDistinct(list) ==
    \A i, j \in 1..Len(list) : i # j => list[i] # list[j]

\* No two authors of the catalog have the same English name, letter case
\* ignored.
DistinctEnglishNames ==
    \A i, j \in 1..Len(authors) :
        i # j => Lower(EnglishNameOf(authors[i])) # Lower(EnglishNameOf(authors[j]))

\* get_russian_name was called with the English name of a catalog author and
\* returned that author.
RoundTrips ==
    \A a \in CatalogSet : call.query = EnglishNameOf(a) => call.value = Some(a)

\* C28 as stated: with a synthesized table over pairwise distinct names,
\* get_russian_name(get_english_name(a)) is a for every catalog author a.
C28_RoundTripOfDistinctNames ==
    (GetRussianReturned /\ Synthesized /\ PairwiseDistinct(authors)) => RoundTrips

\* C28: with a synthesized table over a catalog whose authors have pairwise
\* distinct English names, letter case ignored, get_russian_name(
\* get_english_name(a)) is a for every catalog author a.
C28_RoundTripOfDistinctEnglishNames ==
    (GetRussianReturned /\ Synthesized /\ DistinctEnglishNames) => RoundTrips

\* C28 witness: over a catalog of two authors, get_russian_name was called
\* with the English name of the second one, a rendering of the dictionary
\* that differs from the Russian name, and returned that author.
C28_Witness ==
    /\ GetRussianReturned
    /\ Synthesized
    /\ Len(authors) = 2
    /\ DistinctEnglishNames
    /\ call.query = EnglishNameOf(authors[2])
    /\ call.query # authors[2]
    /\ call.query # <<>>
    /\ call.value = Some(authors[2])

\* ---------------------------------------------------------------------
\* src/backend/app.py: translate_russian_to_english and translation_cache
\* ---------------------------------------------------------------------

\* s.lstrip(chars) and s.rstrip(chars)
RECURSIVE LStripOf(_, _)
LStripOf(s, chars) ==
    IF s # <<>> /\ Head(s) \in chars THEN LStripOf(Tail(s), chars) ELSE s

RECURSIVE RStripOf(_, _)
RStripOf(s, chars) ==
    IF s # <<>> /\ s[Len(s)] \in chars
    THEN RStripOf(SubSeq(s, 1, Len(s) - 1), chars)
    ELSE s

\* translation.strip().strip('"').strip("'")
StripQuotes(translation) ==
    LET a == Strip(translation)
        b == RStripOf(LStripOf(a, {34}), {34})
    IN RStripOf(LStripOf(b, {39}), {39})

\* translation_cache = {}
EmptyCache == [t \in {} |-> <<>>]

\* translation_cache[russian_text] = translation
CacheWith(cache, russian_text, translation) ==
    [t \in DOMAIN cache \cup {russian_text} |->
        IF t = russian_text THEN translation ELSE cache[t]]

\* What explanation_agent.llm.complete does in one call: it returns a string,
\* returns None (a message without content), or raises.
LlmStr(s) == [kind |-> "str", value |-> s]
LlmNone == [kind |-> "none", value |-> <<>>]
LlmRaise == [kind |-> "raise", value |-> <<>>]
LlmNotCalled == [kind |-> "not_called", value |-> <<>>]

\* The outcome of one call: the value returned, the return statement reached
\* (path), the cache after the call and the number of LLM calls made.
TranslationOf(value, path, cache, llm_calls) ==
    [value |-> value, path |-> path, translation_cache |-> cache,
     llm_calls |-> llm_calls]

\* Faulty variant of translate_russian_to_english: a failed translation is
\* cached as the text itself.
TranslateCachingFailures(russian_text, cache, agent, reply) ==
    IF russian_text = <<>> THEN TranslationOf(russian_text, "empty", cache, 0)
    ELSE IF russian_text \in DOMAIN cache
    THEN TranslationOf(cache[russian_text], "hit", cache, 0)
    ELSE IF ~agent THEN TranslationOf(russian_text, "no_agent", cache, 0)
    ELSE IF reply.kind = "str"
    THEN TranslationOf(StripQuotes(reply.value), "translated",
                       CacheWith(cache, russian_text, StripQuotes(reply.value)), 1)
    ELSE TranslationOf(russian_text, "failed",
                       CacheWith(cache, russian_text, russian_text), 1)

\* translate_russian_to_english(russian_text), on the cache and the agent of
\* the process, with the outcome of the LLM call if one is made. A reply of
\* None makes translation.strip() raise inside the try block.
translate_russian_to_english(russian_text, cache, agent, reply) ==
    IF russian_text = <<>> THEN TranslationOf(russian_text, "empty", cache, 0)
    ELSE IF russian_text \in DOMAIN cache
    THEN TranslationOf(cache[russian_text], "hit", cache, 0)
    ELSE IF ~agent THEN TranslationOf(russian_text, "no_agent", cache, 0)
    ELSE IF reply.kind = "str"
    THEN TranslationOf(StripQuotes(reply.value), "translated",
                       CacheWith(cache, russian_text, StripQuotes(reply.value)), 1)
    ELSE TranslationOf(russian_text, "failed", cache, 1)

MaxLlmCalls == 3

TranslateTexts ==
    { <<>>,    \* ""
      <<1060, 1077, 1090>>,    \* "Фет"
      <<1041, 1083, 1086, 1082>> }    \* "Блок"

LlmReplies ==
    { LlmRaise, LlmNone,
      LlmStr(<<70, 101, 116>>),    \* "Fet"
      LlmStr(<<32, 34, 70, 101, 116, 34, 10>>),    \* " \"Fet\"\n"
      LlmStr(<<39, 66, 108, 111, 107, 39>>),    \* "'Blok'"
      LlmStr(<<34, 34>>),    \* "\"\""
      LlmStr(<<1060, 1077, 1090>>) }    \* "Фет"

\* The process and its last call: the module-level translation_cache, the
\* module-level explanation_agent (is it set), the LLM calls made so far,
\* and the arguments and the result of the last call.
TranslateCallOf(russian_text, reply, path, kind, value, cache, agent, llm_calls) ==
    [op |-> "translate_russian_to_english", russian_text |-> russian_text,
     reply |-> reply, path |-> path, kind |-> kind, value |-> value,
     translation_cache |-> cache, explanation_agent |-> agent,
     llm_calls |-> llm_calls]

\* After load_resources: the cache is empty, the agent is set or None.
TranslateInit ==
    /\ authors = <<>>
    /\ translation_db = EmptyTable
    /\ translation_keys = <<>>
    /\ store = NoPath
    /\ pc = "ready"
    /\ \E agent \in BOOLEAN :
        call = TranslateCallOf(<<>>, LlmNotCalled, "none", "none", <<>>,
                               EmptyCache, agent, 0)

TranslateCall ==
    /\ call.op = "translate_russian_to_english"
    /\ \E russian_text \in TranslateTexts, reply \in LlmReplies :
        LET r == translate_russian_to_english(russian_text, call.translation_cache,
                                              call.explanation_agent, reply)
        IN /\ call.llm_calls + r.llm_calls <= MaxLlmCalls
           /\ call' = TranslateCallOf(russian_text,
                                      IF r.llm_calls = 1 THEN reply ELSE LlmNotCalled,
                                      r.path, "return", r.value,
                                      r.translation_cache, call.explanation_agent,
                                      call.llm_calls + r.llm_calls)
    /\ UNCHANGED <<authors, translation_db, translation_keys, store, pc>>

TranslateNext == TranslateCall

SpecTranslate == TranslateInit /\ [][TranslateNext]_vars

\* ---------------------------------------------------------------------
\* C29
\* ---------------------------------------------------------------------

\* The step is a call of translate_russian_to_english.
TranslateStep == call'.op = "translate_russian_to_english" /\ call'.kind = "return"

\* The call of the step made an LLM call that returned a string.
LlmSucceeded == call'.reply.kind = "str"

\* The call of the step made an LLM call that raised.
LlmRaised == call'.reply.kind = "raise"

\* C29: a call writes translation_cache only when its LLM call returned a
\* translation, and then it caches, under the text, the value it returns; a
\* call with a text already in the cache returns the cached value, makes no
\* LLM call and leaves the cache unchanged; a call whose LLM call raises, or
\* that finds no explanation agent, returns the text and leaves the cache
\* unchanged.
C29_CachesOnlySuccesses ==
    [][TranslateStep =>
        LET text == call'.russian_text
            cache == call.translation_cache
        IN /\ call'.translation_cache # cache =>
                /\ LlmSucceeded
                /\ text \notin DOMAIN cache
                /\ call'.translation_cache = CacheWith(cache, text, call'.value)
           /\ text \in DOMAIN cache =>
                /\ call'.value = cache[text]
                /\ call'.llm_calls = call.llm_calls
                /\ call'.translation_cache = cache
           /\ (LlmRaised \/ ~call.explanation_agent) =>
                /\ call'.value = text
                /\ call'.translation_cache = cache]_vars

\* A text is answered from the cache after two LLM calls of which only one
\* was cached: the other one failed and left the cache as it was.
C29_Witness ==
    /\ call.op = "translate_russian_to_english"
    /\ call.path = "hit"
    /\ call.value = call.translation_cache[call.russian_text]
    /\ call.value # call.russian_text
    /\ call.llm_calls = 2
    /\ Cardinality(DOMAIN call.translation_cache) = 1

\* ---------------------------------------------------------------------
\* src/backend/app.py: chat_llm
\* ---------------------------------------------------------------------

\* What a function called by the endpoint does: it returns a body, raises
\* HTTPException(status_code, detail), or raises another exception.
Returns(body) == [kind |-> "return", status |-> 200, detail |-> body]
RaisesHttp(status, detail) == [kind |-> "http", status |-> status, detail |-> detail]
RaisesError == [kind |-> "error", status |-> 0, detail |-> "exception"]
NotReached == [kind |-> "none", status |-> 0, detail |-> "none"]

\* The functions chat_llm routes to.
RoutedFunctions ==
    {"search_poems_by_content", "search_similar_authors", "search_poems_by_author"}

\* What current_llm_agent.process_query does: it raises, or returns a
\* response whose function_call is None or names a function, with or without
\* the argument the route reads (query, author_name).
NoFunctionCall == [kind |-> "response", name |-> "none", arguments |-> FALSE]
FunctionCall(name, arguments) ==
    [kind |-> "response", name |-> name, arguments |-> arguments]
ProcessQueryRaises == [kind |-> "raise", name |-> "none", arguments |-> FALSE]

\* The search a response leads to, if any: search_poems for no function call
\* and for search_poems_by_content, search_authors for search_similar_authors,
\* the scan of poem_idmap for search_poems_by_author.
SearchOutcomes(pq) ==
    IF pq.kind = "raise" THEN {NotReached}
    ELSE IF pq.name = "none"
    THEN {Returns("poem_results"), RaisesHttp(400, "empty_text"), RaisesError}
    ELSE IF ~pq.arguments \/ pq.name \notin RoutedFunctions THEN {NotReached}
    ELSE IF pq.name = "search_poems_by_content"
    THEN {Returns("poem_results"), RaisesHttp(400, "empty_text"), RaisesError}
    ELSE IF pq.name = "search_similar_authors"
    THEN {Returns("author_results"), RaisesHttp(400, "empty_author"),
          RaisesHttp(404, "author_not_found"), RaisesError}
    ELSE {Returns("author_poems"), RaisesError}

\* What chat(q) does: an empty text reaches search_poems, which raises 400;
\* another text is answered by search_authors or search_poems.
ChatOutcomes(text) ==
    IF text = <<>> THEN {RaisesHttp(400, "empty_text")}
    ELSE {Returns("rule_based_results"), RaisesHttp(400, "empty_author"),
          RaisesHttp(404, "author_not_found"), RaisesError}

\* The try block of chat_llm (lines 646-722): what it returns or raises.
TryBlock(pq, search) ==
    IF pq.kind = "raise" THEN RaisesError
    ELSE IF pq.name = "none" THEN search
    ELSE IF pq.name \in RoutedFunctions /\ ~pq.arguments THEN RaisesError
    ELSE IF pq.name = "search_poems_by_content" THEN search
    ELSE IF pq.name = "search_similar_authors"
    THEN IF search.kind = "http" /\ search.status = 404
         THEN Returns("author_not_found_message")
         ELSE search
    ELSE IF pq.name = "search_poems_by_author" THEN search
    ELSE RaisesHttp(500, "unknown_function")

\* chat_llm(q): without an LLM agent the rule-based chat answers; otherwise
\* the try block answers, and `except Exception` (line 724), which catches
\* HTTPException as well, hands every exception of the block to chat(q).
chat_llm(agent, pq, search, chat) ==
    IF ~agent THEN chat
    ELSE IF TryBlock(pq, search).kind = "return" THEN TryBlock(pq, search)
    ELSE chat

\* The response the client receives: the body with status 200, the status and
\* detail of an HTTPException, or the framework's 500 for another exception.
ResponseOf(outcome) ==
    IF outcome.kind = "error"
    THEN [status |-> 500, detail |-> "internal_server_error"]
    ELSE [status |-> outcome.status, detail |-> outcome.detail]

ChatTexts ==
    { <<>>,    \* ""
      <<70, 101, 116>> }    \* "Fet"

ProcessQueryOutcomes ==
    {ProcessQueryRaises, NoFunctionCall}
    \cup {FunctionCall(name, arguments) :
            name \in RoutedFunctions \cup {"explain_poem"}, arguments \in BOOLEAN}

\* A request to /chat/llm with what the functions it calls do, and its
\* response.
ChatLlmCallOf(text, language, agent, pq, search, chat, kind, response) ==
    [op |-> "chat_llm", text |-> text, language |-> language, agent |-> agent,
     process_query |-> pq, search |-> search, chat |-> chat,
     kind |-> kind, response |-> response]

ChatLlmInit ==
    /\ authors = <<>>
    /\ store = NoPath
    /\ translation_db = EmptyTable
    /\ translation_keys = <<>>
    /\ pc = "ready"
    /\ call \in {ChatLlmCallOf(text, language, agent, pq, search, chat,
                               "pending", ResponseOf(NotReached)) :
                    text \in ChatTexts, language \in {"en", "ru"},
                    agent \in BOOLEAN, pq \in {NoFunctionCall},
                    search \in {NotReached}, chat \in {NotReached}}

\* One request: the functions the endpoint calls do one of the things they
\* can do, and the endpoint responds.
ChatLlmCall ==
    /\ call.op = "chat_llm"
    /\ call.kind = "pending"
    /\ \E pq \in ProcessQueryOutcomes :
        \E search \in SearchOutcomes(pq), chat \in ChatOutcomes(call.text) :
            call' = ChatLlmCallOf(call.text, call.language, call.agent, pq,
                                  search, chat, "return",
                                  ResponseOf(chat_llm(call.agent, pq, search, chat)))
    /\ UNCHANGED <<authors, translation_db, translation_keys, store, pc>>

ChatLlmNext == ChatLlmCall

SpecChatLlm == ChatLlmInit /\ [][ChatLlmNext]_vars

\* ---------------------------------------------------------------------
\* C30
\* ---------------------------------------------------------------------

\* A request was answered with an LLM agent whose function call named a
\* function chat_llm does not route.
UnknownFunctionCalled ==
    /\ call.op = "chat_llm"
    /\ call.kind = "return"
    /\ call.agent
    /\ call.process_query.kind = "response"
    /\ call.process_query.name \notin RoutedFunctions \cup {"none"}

\* C30: when the function call of the LLM agent names a function other than
\* search_poems_by_content, search_similar_authors and search_poems_by_author,
\* the endpoint responds with HTTP 500 and the 'unknown function' message.
C30_UnknownFunctionIsHttp500 ==
    UnknownFunctionCalled =>
        call.response = [status |-> 500, detail |-> "unknown_function"]

====
